---- MODULE Spec2Model ----
(***************************************************************************)
(* Model of the StyleAgent coordination core: the mailbox fabric           *)
(* (src/protocol/ahp.py), the task registry (src/core/registry.py), the    *)
(* retry handler and circuit breaker (src/core/errors.py) and the leader's *)
(* fan-in loop (src/agents/leader_agent.py, src/agents/sub_agent.py).      *)
(*                                                                         *)
(* Each component has its own specification (SpecMQ, SpecRegistry,         *)
(* SpecRetry, SpecBreaker, SpecCollect) over one set of variables; a       *)
(* specification leaves the other components in their constructed state.   *)
(***************************************************************************)
EXTENDS Integers, Sequences, FiniteSets, TLC

VARIABLES
    \* ---- MessageQueue (ahp.py) ----
    mq_queues,        \* _queues: agent -> FIFO of envelopes
    mq_message_ids,   \* _message_ids: agent -> set of message ids seen
    th_pc,            \* sender thread -> "idle" | "put" (between lock and put)
    th_arg,           \* sender thread -> <<agent, envelope>> of the send in flight
    mq_sent,          \* history: agent -> id -> number of send calls made
    mq_delivered,     \* history: agent -> id -> number of times receive returned it
    mq_last_recv,     \* history: agent -> last receive result: "never" | "none" | "message"
    mq_dropped,       \* history: number of sends dropped as duplicates
    \* ---- CircuitBreaker (errors.py) ----
    cb_failure_count,     \* _failure_count
    cb_last_failure_time, \* _last_failure_time: <<>> (None) or <<clock reading in seconds>>
    cb_state,             \* _state: "closed" | "open" | "half_open"
    cb_now,               \* the clock datetime.now() reads, in whole seconds
    cb_ticks,             \* number of clock advances made (bounds the run)
    cb_last_op,           \* history: the last breaker operation executed
    cb_prev_op,           \* history: the breaker operation before the last one
    cb_prev_state,        \* history: _state before the last breaker operation
    cb_result,            \* history: what the last can_execute() returned
    cb_checked_at,        \* history: the clock reading at the last can_execute()
    \* ---- RetryHandler (errors.py) ----
    rh_max_retries,       \* config.max_retries
    rh_retry_on,          \* config.retry_on: the error types retried
    rh_attempts,          \* _attempts: key -> attempt count (a dict: keys come and go)
    rh_pc,                \* execute_with_retry: "idle" | "call" | "done"
    rh_key,               \* task_id of the invocation
    rh_last_error,        \* last_error: <<>> (None) or <<index of the call that raised it>>
    rh_calls,             \* history: calls of func made by this invocation
    rh_sleeps,            \* history: the delays slept by this invocation, in order
    rh_outcome,           \* history: "none" | "returned" | "raised"
    rh_value,             \* history: index of the call whose result / error came out
    rh_start_attempts,    \* history: the key's attempt count when the invocation began
    rh_only_retryable,    \* history: every call so far raised a retryable error
    rh_invocations,       \* history: invocations begun (bounds the run)
    \* ---- TaskRegistry (registry.py) ----
    reg_cache,            \* _memory_cache: task id -> record (repr "absent" when not cached)
    reg_store,            \* the Durable Store's tasks table: task id -> row
    reg_locks,            \* _locks: the task ids that have a lock object
    reg_holder,           \* task id -> the caller holding its lock, or None
    reg_pc,               \* caller -> "idle" | "got_lock" | "locked" | "done" (in claim_task)
    reg_task,             \* caller -> the task id it claims
    reg_result,           \* history: caller -> "none" | "True" | "False" | "AttributeError"
    reg_registered,       \* history: the task ids created by register_task
    reg_after_register,   \* history: caller -> its claim began on a task register_task had created
    reg_retry_pc,         \* retry_failed_task caller -> "idle" | "passed" | "loaded" | "done"
    reg_retry_task,       \* retry_failed_task caller -> the task id it retries
    reg_retry_local,      \* retry_failed_task caller -> the retry_count it read for += 1
    reg_retry_result,     \* history: caller -> "none" | "True" | "False" | an exception name
    reg_last_op,          \* history: the registry operation that completed last
    \* ---- Leader fan-in (leader_agent.py, sub_agent.py) ----
    col_variant,          \* "sync" (LeaderAgent, threads) | "async" (AsyncLeaderAgent)
    col_leader_queue,     \* the "leader" mailbox: FIFO of envelopes
    col_worker,           \* worker -> "waiting" (holds its TASK) | "success" | "failed" (replied)
    col_dlq,              \* _dlq: agent id -> number of dead-letter entries
    col_results,          \* results: the keys of the result map
    col_received,         \* received: sender ids marked received
    col_progress_queue,   \* progress_queue of the threaded variant
    col_expired,          \* time.time() - start >= timeout
    col_pc,               \* _collect_results: "collecting" | "receiving" | "returned"
    col_missing,          \* missing, computed after the loop
    col_at_return,        \* history: the workers and the mailbox when _collect_results returned
    \* ---- Leader's guarded call (leader_agent.py) ----
    guard_pc,             \* _llm_call_with_circuit_breaker: "idle" | "retrying" | "done"
    guard_func_name,      \* func_name of the call
    guard_result,         \* what the call returned: "value" | "default_profile" | "None"
    guard_outcome,        \* history: "none" | "returned" | "raised"
    guard_refused,        \* history: can_execute() was False at entry
    guard_invocations_at_entry, \* history: rh_invocations when the call was entered
    agg_outcome,          \* aggregate_results: "none" | a result kind | an exception name
    \* ---- AHPReceiver / AsyncAHPReceiver (ahp.py) ----
    rcv_variant,          \* "sync" (AHPReceiver) | "async" (AsyncAHPReceiver)
    rcv_mailbox,          \* the receiving agent's mailbox: FIFO of envelopes
    rcv_delivered,        \* number of envelopes sent to the receiver (bounds the run)
    rcv_acks,             \* sender -> number of ACK envelopes the receiver sent it
    rcv_acks_before,      \* history: rcv_acks when the last receive was called
    rcv_auto_ack,         \* history: auto_ack of the last receive
    rcv_last_msg,         \* history: <<>> (None) or <<envelope>> the last receive returned
    \* ---- OutfitSubAgent / AsyncOutfitSubAgent run loop (sub_agent.py) ----
    wk_variant,           \* "sync" (OutfitSubAgent, a thread) | "async" (AsyncOutfitSubAgent, a task)
    wk_running,           \* _running
    wk_pc,                \* _run_loop: "loop_head" | "polling" | "handling" | "exited"
    wk_step,              \* _handle_task: the envelopes sent to the leader so far
    wk_mailbox,           \* the TASK envelopes waiting in the worker's mailbox
    wk_arrived,           \* number of TASK envelopes sent to the worker (bounds the run)
    wk_stopped,           \* history: stop() has been called
    wk_begun_after_stop,  \* history: a TASK's handling began after stop()
    wk_interrupted,       \* history: a handling begun before stop() was cut short
    wk_finished,          \* history: number of TASKs whose handling sent its RESULT
    \* ---- TokenController.create_compact_instruction (ahp.py) ----
    tok_profile,          \* the lengths of the texts in user_profile and task (0: absent)
    tok_context,          \* len(context)
    tok_max_tokens,       \* max_tokens: <<>> (None) or <<n>>
    tok_out,              \* <<>> before the call, then <<the sections of the instruction>>
    \* ---- MessageQueue: dead letters, retry counters, broadcast (ahp.py) ----
    mq_dlq,               \* _dlq: agent -> list of dead-letter entries ([] when the key is absent)
    mq_retry_count,       \* _retry_count: message id -> count (0 when the key is absent)
    mq_max_retries,       \* _max_retries
    mq_now,               \* the clock datetime.now() reads in to_dlq; it moves on between calls
    mq_incs,              \* history: message id -> increment_retry calls since the last reset_retry
    mq_last_op,           \* history: the last dead-letter / retry-counter operation and its result
    mq_dlq_ops,           \* history: number of to_dlq calls (bounds the run)
    \* ---- MessageQueue.broadcast and the order of delivery (ahp.py) ----
    bc_rest,              \* broadcast: the recipients of agent_ids still to be sent to
    bc_msg,               \* broadcast: <<>> or <<the envelope of the last broadcast call>>
    bc_running,           \* broadcast has been called and has not returned
    bc_turns,             \* history: per recipient handled: was the id sent to it before, was a put begun
    bc_puts,              \* history: number of puts made by the current broadcast
    mq_enq_log,           \* history: agent -> the <<sender, envelope>> pairs put, in order
    mq_recv_log,          \* history: agent -> the envelopes receive returned, in order
    th_log,               \* history: sender -> the <<agent, envelope>> of its sends that were not dropped
    \* ---- AHPMessage.to_dict / from_dict (ahp.py) ----
    rt_msg,               \* an AHPMessage m
    rt_dict,              \* <<>> or <<m.to_dict()>>
    rt_restored,          \* <<>> or <<AHPMessage.from_dict(m.to_dict())>>
    rt_sends,             \* history: which of the two was sent to "head", in order
    \* ---- AHPReceiver.wait_for_task (ahp.py) ----
    wt_last_op,           \* history: "none" | "send" | "wait_for_task", the last operation
    wt_before,            \* history: the mailbox when wait_for_task was last called
    wt_result,            \* history: <<>> (None) or <<envelope>> wait_for_task last returned
    \* ---- LeaderAgent.process: dispatch, then collection (leader_agent.py) ----
    ses_to_dispatch,      \* the workers whose TASK _dispatch_tasks_via_ahp has still to send
    ses_tasks,            \* history: worker -> number of TASK envelopes the leader sent it
    \* ---- the leader's guarded calls, counted (leader_agent.py) ----
    guard_failed_run,     \* history: guarded calls that failed since the last one that succeeded
    \* ---- acknowledgments between two polling agents (ahp.py) ----
    ack_variant,          \* "sync" (AHPReceiver) | "async" (AsyncAHPReceiver)
    ack_mailbox,          \* agent -> its mailbox: FIFO of envelopes
    ack_produced,         \* number of envelopes the senders have produced (bounds the run)
    ack_acked             \* history: some receive has sent an ACK

mqVars == <<mq_queues, mq_message_ids, th_pc, th_arg, mq_sent, mq_delivered,
            mq_last_recv, mq_dropped>>

cbVars == <<cb_failure_count, cb_last_failure_time, cb_state, cb_now, cb_ticks,
            cb_last_op, cb_prev_op, cb_prev_state, cb_result, cb_checked_at>>

rhVars == <<rh_max_retries, rh_retry_on, rh_attempts, rh_pc, rh_key, rh_last_error,
            rh_calls, rh_sleeps, rh_outcome, rh_value, rh_start_attempts,
            rh_only_retryable, rh_invocations>>

retryVars == <<reg_retry_pc, reg_retry_task, reg_retry_local, reg_retry_result>>

regVars == <<reg_cache, reg_store, reg_locks, reg_holder, reg_pc, reg_task, reg_result,
             reg_registered, reg_after_register, retryVars, reg_last_op>>

colVars == <<col_variant, col_leader_queue, col_worker, col_dlq, col_results, col_received,
             col_progress_queue, col_expired, col_pc, col_missing, col_at_return>>

guardVars == <<guard_pc, guard_func_name, guard_result, guard_outcome, guard_refused,
               guard_invocations_at_entry, agg_outcome>>

rcvVars == <<rcv_variant, rcv_mailbox, rcv_delivered, rcv_acks, rcv_acks_before,
             rcv_auto_ack, rcv_last_msg>>

wkVars == <<wk_variant, wk_running, wk_pc, wk_step, wk_mailbox, wk_arrived, wk_stopped,
            wk_begun_after_stop, wk_interrupted, wk_finished>>

tokVars == <<tok_profile, tok_context, tok_max_tokens, tok_out>>

fabVars == <<mq_dlq, mq_retry_count, mq_max_retries, mq_now, mq_incs, mq_last_op,
             mq_dlq_ops>>

bcVars == <<bc_rest, bc_msg, bc_running, bc_turns, bc_puts, mq_enq_log, mq_recv_log, th_log>>

rtVars == <<rt_msg, rt_dict, rt_restored, rt_sends>>

wtVars == <<wt_last_op, wt_before, wt_result>>

sesVars == <<ses_to_dispatch, ses_tasks>>

gcVars == <<guard_failed_run>>

ackVars == <<ack_variant, ack_mailbox, ack_produced, ack_acked>>

vars == <<mqVars, cbVars, rhVars, regVars, colVars, guardVars, rcvVars, wkVars, tokVars, fabVars, bcVars, rtVars, wtVars, sesVars, gcVars, ackVars>>

-----------------------------------------------------------------------------
(* Bounds of the model *)

MaxSends == 3
MaxTicks == 3
MaxFailureCount == 6
MaxConfiguredRetries == 5
MaxInvocations == 2
MaxGuardedCalls == 5
MaxDeliveries == 3
MaxWorkerTasks == 3
MaxTokenBudget == 300
MaxDlqEntries == 2
MaxRetryCount == 4
MaxProduced == 2

-----------------------------------------------------------------------------
(* MessageQueue *)

None == "None"

Recipients == {"head", "top"}
Threads == {"t1", "t2"}
MsgIds == {"m1", "m2"}
Methods == {"TASK", "RESULT", "PROGRESS", "HEARTBEAT", "TOKEN_REQUEST",
            "TOKEN_RESPONSE", "ACK"}

\* The envelopes the senders of SpecMQ draw from: the same message id may be
\* carried by envelopes of different content.
Envelopes == [message_id : MsgIds, method : {"TASK", "RESULT"}]

RECURSIVE SumOver(_, _)
SumOver(f, S) ==
    IF S = {} THEN 0
    ELSE LET x == CHOOSE y \in S : TRUE IN f[x] + SumOver(f, S \ {x})

TotalSent == SumOver([p \in Recipients \X MsgIds |-> mq_sent[p[1]][p[2]]],
                     Recipients \X MsgIds)

MQInit ==
    /\ mq_queues = [a \in Recipients |-> <<>>]
    /\ mq_message_ids = [a \in Recipients |-> {}]
    /\ th_pc = [t \in Threads |-> "idle"]
    /\ th_arg = [t \in Threads |-> None]
    /\ mq_sent = [a \in Recipients |-> [i \in MsgIds |-> 0]]
    /\ mq_delivered = [a \in Recipients |-> [i \in MsgIds |-> 0]]
    /\ mq_last_recv = [a \in Recipients |-> "never"]
    /\ mq_dropped = 0

\* send, the part under self._lock: a duplicate is dropped (the call returns),
\* otherwise the id is recorded and the thread goes on to the put.
IsDuplicateNoCheck(ids, agent, message) == FALSE

IsDuplicateForAnyAgent(ids, agent, message) ==
    \E a \in DOMAIN ids : message.message_id \in ids[a]

IsDuplicate(ids, agent, message) == message.message_id \in ids[agent]

SendLocked(t, agent, message) ==
    /\ th_pc[t] = "idle"
    /\ TotalSent < MaxSends
    /\ mq_sent' = [mq_sent EXCEPT ![agent][message.message_id] = @ + 1]
    /\ IF IsDuplicate(mq_message_ids, agent, message)
       THEN /\ mq_dropped' = mq_dropped + 1
            /\ UNCHANGED <<mq_message_ids, th_pc, th_arg>>
       ELSE /\ mq_message_ids' =
                  [mq_message_ids EXCEPT ![agent] = @ \cup {message.message_id}]
            /\ th_pc' = [th_pc EXCEPT ![t] = "put"]
            /\ th_arg' = [th_arg EXCEPT ![t] = <<agent, message>>]
            /\ UNCHANGED mq_dropped
    /\ UNCHANGED <<mq_queues, mq_delivered, mq_last_recv>>

SendPutInFront(t) ==
    /\ th_pc[t] = "put"
    /\ mq_queues' = [mq_queues EXCEPT ![th_arg[t][1]] = <<th_arg[t][2]>> \o @]
    /\ th_pc' = [th_pc EXCEPT ![t] = "idle"]
    /\ th_arg' = [th_arg EXCEPT ![t] = None]
    /\ UNCHANGED <<mq_message_ids, mq_sent, mq_delivered, mq_last_recv, mq_dropped>>

\* send, after the lock is released: self.get_queue(agent_id).put(message)
SendPut(t) ==
    /\ th_pc[t] = "put"
    /\ mq_queues' = [mq_queues EXCEPT ![th_arg[t][1]] = Append(@, th_arg[t][2])]
    /\ th_pc' = [th_pc EXCEPT ![t] = "idle"]
    /\ th_arg' = [th_arg EXCEPT ![t] = None]
    /\ UNCHANGED <<mq_message_ids, mq_sent, mq_delivered, mq_last_recv, mq_dropped>>

\* receive: the head of the queue, or None when the timeout expires on an
\* empty queue.
Receive(agent) ==
    /\ IF mq_queues[agent] # <<>>
       THEN /\ mq_queues' = [mq_queues EXCEPT ![agent] = Tail(@)]
            /\ mq_delivered' =
                  [mq_delivered EXCEPT ![agent][Head(mq_queues[agent]).message_id] = @ + 1]
            /\ mq_last_recv' = [mq_last_recv EXCEPT ![agent] = "message"]
       ELSE /\ mq_last_recv' = [mq_last_recv EXCEPT ![agent] = "none"]
            /\ UNCHANGED <<mq_queues, mq_delivered>>
    /\ UNCHANGED <<mq_message_ids, th_pc, th_arg, mq_sent, mq_dropped>>



-----------------------------------------------------------------------------
(* CircuitBreaker *)

FailureThreshold == 5
CbTimeout == 60
SecondsPerDay == 86400

\* The amounts the clock advances by between breaker operations.
TickSteps == {1, CbTimeout - 1, SecondsPerDay}

CBInit ==
    /\ cb_failure_count = 0
    /\ cb_last_failure_time = <<>>
    /\ cb_state = "closed"
    /\ cb_now = 0
    /\ cb_ticks = 0
    /\ cb_last_op = "init"
    /\ cb_prev_op = "init"
    /\ cb_prev_state = "closed"
    /\ cb_result = TRUE
    /\ cb_checked_at = 0

\* (datetime.now() - self._last_failure_time).seconds: the seconds field of a
\* timedelta, which leaves out whole days.
ElapsedTotalSeconds(now, last) == now - last

ElapsedSeconds(now, last) == (now - last) % SecondsPerDay

\* The state property: an open breaker whose cool-down has elapsed becomes
\* half_open as a side effect of the read.
StateAfterRead ==
    IF /\ cb_state = "open"
       /\ cb_last_failure_time # <<>>
       /\ ElapsedSeconds(cb_now, cb_last_failure_time[1]) >= CbTimeout
    THEN "half_open"
    ELSE cb_state

CbOp(op) ==
    /\ cb_last_op' = op
    /\ cb_prev_op' = cb_last_op
    /\ cb_prev_state' = cb_state

CanExecute ==
    /\ cb_state' = StateAfterRead
    /\ cb_result' = (StateAfterRead # "open")
    /\ cb_checked_at' = cb_now
    /\ CbOp("can_execute")
    /\ UNCHANGED <<cb_failure_count, cb_last_failure_time, cb_now, cb_ticks>>

StateAfterSuccessKeepsState == cb_state

StateAfterSuccess == "closed"

RecordSuccess ==
    /\ cb_failure_count' = 0
    /\ cb_state' = StateAfterSuccess
    /\ CbOp("record_success")
    /\ UNCHANGED <<cb_last_failure_time, cb_now, cb_ticks, cb_result, cb_checked_at>>

OpensAtOneBelow(count) == count >= FailureThreshold - 1

Opens(count) == count >= FailureThreshold

RecordFailure ==
    /\ cb_failure_count < MaxFailureCount
    /\ cb_failure_count' = cb_failure_count + 1
    /\ cb_last_failure_time' = <<cb_now>>
    /\ cb_state' = IF Opens(cb_failure_count + 1) THEN "open" ELSE cb_state
    /\ CbOp("record_failure")
    /\ UNCHANGED <<cb_now, cb_ticks, cb_result, cb_checked_at>>

CbReset ==
    /\ cb_failure_count' = 0
    /\ cb_state' = "closed"
    /\ cb_last_failure_time' = <<>>
    /\ CbOp("reset")
    /\ UNCHANGED <<cb_now, cb_ticks, cb_result, cb_checked_at>>

\* Time passes between operations; no breaker field changes (there is no timer).
CbAdvance(d) ==
    /\ cb_ticks < MaxTicks
    /\ cb_now' = cb_now + d
    /\ cb_ticks' = cb_ticks + 1
    /\ UNCHANGED <<cb_failure_count, cb_last_failure_time, cb_state, cb_last_op,
                   cb_prev_op, cb_prev_state, cb_result, cb_checked_at>>

CbTick == \E d \in TickSteps : CbAdvance(d)

-----------------------------------------------------------------------------
(* RetryHandler *)

InitialDelay == 1
BackoffFactor == 2
MaxDelay == 30
LeaderMaxRetries == 3

ErrorTypes == {"timeout", "tool_failed", "llm_failed", "network", "validation", "unknown"}

RetryOnEveryType == ErrorTypes

\* RetryConfig.__post_init__: retry_on when none is given
DefaultRetryOn == {"timeout", "network", "tool_failed", "llm_failed"}
LeaderRetryOn == {"llm_failed", "network", "timeout"}

\* An exception text, as the set of the keywords from_exception looks for that
\* occur in it (lower-cased).
ErrorTexts == { {"timeout"}, {"tool"}, {"model"}, {"connection"}, {"validation"}, {},
                {"validation", "timeout"} }

\* ErrorInfo.from_exception: the first keyword test that matches decides.
Classify(text) ==
    IF "timeout" \in text THEN "timeout"
    ELSE IF "tool" \in text THEN "tool_failed"
    ELSE IF "llm" \in text \/ "model" \in text THEN "llm_failed"
    ELSE IF "network" \in text \/ "connection" \in text THEN "network"
    ELSE IF "validation" \in text THEN "validation"
    ELSE "unknown"

\* "" is the default task_id of execute_with_retry.
RetryKeys == {"", "leader_parse_user_profile"}

RECURSIVE Pow(_, _)
Pow(b, e) == IF e = 0 THEN 1 ELSE b * Pow(b, e - 1)

Min(a, b) == IF a <= b THEN a ELSE b

AttemptsGet(att, key) == IF key \in DOMAIN att THEN att[key] ELSE 0

\* self._attempts[key] = value
AttemptsPut(att, key, value) ==
    [k \in DOMAIN att \cup {key} |-> IF k = key THEN value ELSE att[k]]

\* should_retry, its side effect: a key not yet counted is entered with 0.
AttemptsTouched(att, key) ==
    IF key \in DOMAIN att THEN att ELSE AttemptsPut(att, key, 0)

ExhaustedOffByOne(count, max) == count > max

Exhausted(count, max) == count >= max

\* should_retry, its result.
ShouldRetry(att, key, type) ==
    /\ ~Exhausted(AttemptsTouched(att, key)[key], rh_max_retries)
    /\ type \in rh_retry_on

\* get_delay
GetDelay(att, key) ==
    Min(InitialDelay * Pow(BackoffFactor, AttemptsGet(att, key)), MaxDelay)

\* record_attempt
RecordAttempt(att, key) == AttemptsPut(att, key, AttemptsGet(att, key) + 1)

ResetKeepsCount(att, key) == att

\* reset: one key is popped; a falsy key ("" or None) clears every counter.
Reset(att, key) ==
    IF key # ""
    THEN [k \in DOMAIN att \ {key} |-> att[k]]
    ELSE [k \in {} |-> 0]

RHConfigured(max, on) ==
    /\ rh_max_retries = max
    /\ rh_retry_on = on
    /\ rh_attempts = [k \in {} |-> 0]
    /\ rh_pc = "idle"
    /\ rh_key = ""
    /\ rh_last_error = <<>>
    /\ rh_calls = 0
    /\ rh_sleeps = <<>>
    /\ rh_outcome = "none"
    /\ rh_value = 0
    /\ rh_start_attempts = 0
    /\ rh_only_retryable = TRUE
    /\ rh_invocations = 0

\* The handler as the leader constructs it.
RHIdle == RHConfigured(LeaderMaxRetries, LeaderRetryOn)

RHInit ==
    \E max \in 0..MaxConfiguredRetries, on \in {DefaultRetryOn, LeaderRetryOn} :
        RHConfigured(max, on)

\* execute_with_retry is entered: last_error = None.
RetryEnter(key) ==
    /\ rh_pc \in {"idle", "done"}
    /\ rh_invocations' = rh_invocations + 1
    /\ rh_pc' = "call"
    /\ rh_key' = key
    /\ rh_last_error' = <<>>
    /\ rh_calls' = 0
    /\ rh_sleeps' = <<>>
    /\ rh_outcome' = "none"
    /\ rh_value' = 0
    /\ rh_start_attempts' = AttemptsGet(rh_attempts, key)
    /\ rh_only_retryable' = TRUE
    /\ UNCHANGED <<rh_max_retries, rh_retry_on, rh_attempts>>

RetryBegin(key) == rh_invocations < MaxInvocations /\ RetryEnter(key)

\* One turn of the loop in which func returns: reset(task_id), return result.
RetryCallReturns ==
    /\ rh_pc = "call"
    /\ rh_calls' = rh_calls + 1
    /\ rh_attempts' = Reset(rh_attempts, rh_key)
    /\ rh_pc' = "done"
    /\ rh_outcome' = "returned"
    /\ rh_value' = rh_calls + 1
    /\ rh_only_retryable' = FALSE
    /\ UNCHANGED <<rh_max_retries, rh_retry_on, rh_key, rh_last_error, rh_sleeps,
                   rh_start_attempts, rh_invocations>>

\* One turn of the loop in which func raises an exception of the given text.
RetryCallRaises(text) ==
    /\ rh_pc = "call"
    /\ rh_calls' = rh_calls + 1
    /\ rh_only_retryable' = (rh_only_retryable /\ Classify(text) \in rh_retry_on)
    /\ IF ShouldRetry(rh_attempts, rh_key, Classify(text))
       THEN \* record_attempt, get_delay, sleep, last_error = e
            /\ rh_attempts' = RecordAttempt(AttemptsTouched(rh_attempts, rh_key), rh_key)
            /\ rh_sleeps' = Append(rh_sleeps,
                                   GetDelay(RecordAttempt(rh_attempts, rh_key), rh_key))
            /\ rh_last_error' = <<rh_calls + 1>>
            /\ UNCHANGED <<rh_pc, rh_outcome, rh_value>>
       ELSE \* raise last_error or e
            /\ rh_attempts' = AttemptsTouched(rh_attempts, rh_key)
            /\ rh_pc' = "done"
            /\ rh_outcome' = "raised"
            /\ rh_value' = IF rh_last_error # <<>> THEN rh_last_error[1] ELSE rh_calls + 1
            /\ UNCHANGED <<rh_sleeps, rh_last_error>>
    /\ UNCHANGED <<rh_max_retries, rh_retry_on, rh_key, rh_start_attempts, rh_invocations>>

-----------------------------------------------------------------------------
(* LeaderAgent._llm_call_with_circuit_breaker and aggregate_results: the    *)
(* leader's breaker (failure_threshold=5, timeout=60) around its retry      *)
(* handler (max_retries=3, retry_on llm_failed / network / timeout).        *)

FuncNames == {"parse_user_profile", "aggregate_results"}

\* leader_agent.py:117 f"leader_{func_name}"
GuardKey(func_name) ==
    IF func_name = "parse_user_profile"
    THEN "leader_parse_user_profile"
    ELSE "leader_aggregate_results"

\* _get_fallback_result: a default UserProfile for parse_user_profile, None otherwise
GetFallbackResult(func_name) ==
    IF func_name = "parse_user_profile" THEN "default_profile" ELSE "None"

GuardCatchesNothing(outcome) == FALSE

\* leader_agent.py:121 except Exception: whatever execute_with_retry raised
GuardCatches(outcome) == outcome = "raised"

\* The exception texts the Completion Service fails with here: one the
\* leader's handler retries and one it does not.
GuardErrorTexts == { {"timeout"}, {"validation"} }

\* What llm.invoke returned, as aggregate_results reads it: a JSON object, text
\* with braces that is not JSON, or text without braces.
ResponseKinds == {"json", "bad_json", "no_braces"}

GuardIdle ==
    /\ guard_pc = "idle"
    /\ guard_func_name = "parse_user_profile"
    /\ guard_result = "none"
    /\ guard_outcome = "none"
    /\ guard_refused = FALSE
    /\ guard_invocations_at_entry = 0
    /\ agg_outcome = "none"

\* _llm_call_with_circuit_breaker, leader_agent.py:110-118: can_execute();
\* an open breaker returns the fallback at once, otherwise execute_with_retry
\* is entered.
GuardEnter(func_name) ==
    /\ guard_pc \in {"idle", "done"}
    /\ rh_pc \in {"idle", "done"}
    /\ cb_failure_count < MaxFailureCount
    /\ CanExecute
    /\ guard_func_name' = func_name
    /\ guard_invocations_at_entry' = rh_invocations
    /\ agg_outcome' = "none"
    /\ IF StateAfterRead = "open"
       THEN /\ guard_pc' = "done"
            /\ guard_refused' = TRUE
            /\ guard_result' = GetFallbackResult(func_name)
            /\ guard_outcome' = "returned"
            /\ UNCHANGED rhVars
       ELSE /\ guard_pc' = "retrying"
            /\ guard_refused' = FALSE
            /\ guard_result' = "none"
            /\ guard_outcome' = "none"
            /\ rh_invocations < MaxGuardedCalls
            /\ RetryEnter(GuardKey(func_name))

\* leader_agent.py:119-125: execute_with_retry returned (record_success,
\* return result) or raised (record_failure, return the fallback).
GuardLeave ==
    /\ guard_pc = "retrying"
    /\ rh_pc = "done"
    /\ guard_pc' = "done"
    /\ IF rh_outcome = "returned"
       THEN /\ RecordSuccess
            /\ guard_result' = "value"
            /\ guard_outcome' = "returned"
       ELSE IF GuardCatches(rh_outcome)
       THEN /\ RecordFailure
            /\ guard_result' = GetFallbackResult(guard_func_name)
            /\ guard_outcome' = "returned"
       ELSE /\ guard_result' = "none"
            /\ guard_outcome' = "raised"
            /\ UNCHANGED cbVars
    /\ UNCHANGED <<rhVars, guard_func_name, guard_refused, guard_invocations_at_entry,
                   agg_outcome>>

GcIdle == guard_failed_run = 0

\* leader_agent.py:119-125 the guarded call ends: execute_with_retry returned
\* or raised, once for the whole retry cycle
GuardedCallEnds ==
    /\ GuardLeave
    /\ guard_failed_run' = IF rh_outcome = "returned" THEN 0 ELSE guard_failed_run + 1

\* aggregate_results, leader_agent.py:775-805, after the guarded call:
\* response.find("{") needs a str; a JSON object gives the result with its
\* summary; ValueError / JSONDecodeError or no braces give the result with an
\* empty summary.
ParseResponse(response, kind) ==
    IF response = "None" THEN "AttributeError"
    ELSE IF kind = "json" THEN "result_with_summary"
    ELSE "result_empty_summary"

AggregateResults(kind) ==
    /\ guard_pc = "done"
    /\ guard_func_name = "aggregate_results"
    /\ guard_outcome = "returned"
    /\ agg_outcome = "none"
    /\ agg_outcome' = ParseResponse(guard_result, kind)
    /\ UNCHANGED <<cbVars, rhVars, guard_pc, guard_func_name, guard_result, guard_outcome,
                   guard_refused, guard_invocations_at_entry>>

-----------------------------------------------------------------------------
(* TaskRegistry *)

Tasks == {"task1", "task2"}
Callers == {"agent_head", "agent_top", "agent_bottom"}

\* A cached task is either the TaskRecord object register_task built or the
\* dict StorageLayer.get_task returns (_row_to_task).
\* register_task(..., max_retries: int = 3)
DefaultMaxRetries == 3

NoTask == [repr |-> "absent", status |-> "none", assignee_agent_id |-> None,
           error_message |-> None, retry_count |-> 0, max_retries |-> 0,
           completed_at |-> FALSE]

NewTaskRecord == [repr |-> "TaskRecord", status |-> "pending", assignee_agent_id |-> None,
                  error_message |-> None, retry_count |-> 0,
                  max_retries |-> DefaultMaxRetries, completed_at |-> FALSE]

PendingRow == [repr |-> "Dict", status |-> "pending", assignee_agent_id |-> None,
               error_message |-> None, retry_count |-> 0,
               max_retries |-> DefaultMaxRetries, completed_at |-> FALSE]

Retriers == {"r1", "r2"}

\* The outcome of a completed operation: its name, its task, what it returned
\* or raised, and whether its store write was made ("ok"), raised ("raised")
\* or was not reached ("none").
OpDone(op, t, result, write) == [op |-> op, task |-> t, result |-> result, write |-> write]

WriteOutcome(ok) == IF ok THEN "ok" ELSE "raised"

RegEmpty(rows) ==
    /\ reg_cache = [t \in Tasks |-> NoTask]
    /\ reg_store = rows
    /\ reg_locks = {}
    /\ reg_holder = [t \in Tasks |-> None]
    /\ reg_pc = [a \in Callers |-> "idle"]
    /\ reg_task = [a \in Callers |-> None]
    /\ reg_result = [a \in Callers |-> "none"]
    /\ reg_registered = {}
    /\ reg_after_register = [a \in Callers |-> FALSE]
    /\ reg_retry_pc = [r \in Retriers |-> "idle"]
    /\ reg_retry_task = [r \in Retriers |-> None]
    /\ reg_retry_local = [r \in Retriers |-> 0]
    /\ reg_retry_result = [r \in Retriers |-> "none"]
    /\ reg_last_op = OpDone("init", None, "none", "none")

RegIdle == RegEmpty([t \in Tasks |-> NoTask])

\* A new registry over a store that may hold pending rows of an earlier process.
RegInit ==
    \E old \in SUBSET Tasks :
        RegEmpty([t \in Tasks |-> IF t \in old THEN PendingRow ELSE NoTask])

\* register_task: a fresh uuid, a Pending TaskRecord in the cache, and a
\* best-effort save (a failing save is printed and swallowed).
RegisterTask(t, saved) ==
    /\ reg_cache[t].repr = "absent"
    /\ reg_store[t].repr = "absent"
    /\ t \notin reg_registered
    /\ reg_cache' = [reg_cache EXCEPT ![t] = NewTaskRecord]
    /\ reg_store' = IF saved THEN [reg_store EXCEPT ![t] = PendingRow] ELSE reg_store
    /\ reg_registered' = reg_registered \cup {t}
    /\ reg_last_op' = OpDone("register_task", t, "task_id", WriteOutcome(saved))
    /\ UNCHANGED <<reg_locks, reg_holder, reg_pc, reg_task, reg_result, reg_after_register,
                   retryVars>>

\* claim_task, lock = self._get_lock(task_id): under _locks_lock the lock of
\* the task is created if it is not there.
ClaimGetLock(a, t) ==
    /\ reg_pc[a] = "idle"
    /\ reg_locks' = reg_locks \cup {t}
    /\ reg_pc' = [reg_pc EXCEPT ![a] = "got_lock"]
    /\ reg_task' = [reg_task EXCEPT ![a] = t]
    /\ reg_after_register' = [reg_after_register EXCEPT ![a] = (t \in reg_registered)]
    /\ UNCHANGED <<reg_cache, reg_store, reg_holder, reg_result, reg_registered,
                   retryVars, reg_last_op>>

\* claim_task, with lock: the caller blocks until the task's lock is free.
ClaimAcquire(a) ==
    /\ reg_pc[a] = "got_lock"
    /\ reg_holder[reg_task[a]] = None
    /\ reg_holder' = [reg_holder EXCEPT ![reg_task[a]] = a]
    /\ reg_pc' = [reg_pc EXCEPT ![a] = "locked"]
    /\ UNCHANGED <<reg_cache, reg_store, reg_locks, reg_task, reg_result, reg_registered,
                   reg_after_register, retryVars, reg_last_op>>

\* task = self._memory_cache.get(task_id), or the row loaded from storage.
ClaimLookup(t) == IF reg_cache[t].repr # "absent" THEN reg_cache[t] ELSE reg_store[t]

\* task.get("status"): a dict answers; a TaskRecord has no attribute get.
HasGet(task) == task.repr = "Dict"

\* claim_task, the body under the lock, to the return or the exception that
\* leaves the with block (either way the lock is released).
ClaimBody(a, updated) ==
    LET t == reg_task[a]
        task == ClaimLookup(t)
    IN  /\ reg_pc[a] = "locked"
        /\ reg_holder' = [reg_holder EXCEPT ![t] = None]
        /\ reg_pc' = [reg_pc EXCEPT ![a] = "done"]
        /\ IF task.repr = "absent"
           THEN /\ reg_result' = [reg_result EXCEPT ![a] = "False"]
                /\ UNCHANGED <<reg_cache, reg_store>>
           ELSE IF ~HasGet(task)
           THEN /\ reg_result' = [reg_result EXCEPT ![a] = "AttributeError"]
                /\ UNCHANGED <<reg_cache, reg_store>>
           ELSE IF task.status # "pending"
           THEN /\ reg_result' = [reg_result EXCEPT ![a] = "False"]
                /\ reg_cache' = [reg_cache EXCEPT ![t] = task]
                /\ UNCHANGED reg_store
           ELSE /\ reg_result' = [reg_result EXCEPT ![a] = "True"]
                /\ reg_cache' = [reg_cache EXCEPT ![t] =
                       [task EXCEPT !.status = "in_progress", !.assignee_agent_id = a]]
                /\ reg_store' =
                       IF updated /\ reg_store[t].repr # "absent"
                       THEN [reg_store EXCEPT ![t].status = "in_progress",
                                              ![t].assignee_agent_id = a]
                       ELSE reg_store
        /\ reg_last_op' = OpDone("claim_task", t, reg_result'[a],
                                  IF reg_result'[a] = "True" THEN WriteOutcome(updated)
                                  ELSE "none")
        /\ UNCHANGED <<reg_locks, reg_task, reg_registered, reg_after_register, retryVars>>

\* task.status on the cached object: a TaskRecord has the attribute; the
\* dict StorageLayer.get_task returns has none.
HasAttributes(task) == task.repr = "TaskRecord"

Statuses == {"pending", "in_progress", "completed", "failed", "cancelled"}

\* registry.py:201 the statuses for which update_status stamps completed_at
StampsCompletedAt(status) == status \in {"completed", "failed"}

\* postgres.py:406-438 update_task: a column is written when its argument is truthy
RowAfterUpdate(row, task, error) ==
    [row EXCEPT !.status = task.status,
                !.error_message = IF error # None THEN error ELSE @,
                !.completed_at = IF task.completed_at THEN TRUE ELSE @]

\* update_status: under the task's lock, look the task up (a row loaded from
\* storage is cached), write the fields, persist best-effort, return True.
UpdateStatusAs(op, t, status, error, updated) ==
    LET task == ClaimLookup(t)
        new == [task EXCEPT !.status = status,
                            !.error_message = IF error # None THEN error ELSE @,
                            !.completed_at = IF StampsCompletedAt(status) THEN TRUE ELSE @]
    IN  /\ reg_holder[t] = None
        /\ reg_locks' = reg_locks \cup {t}
        /\ IF task.repr = "absent"
           THEN /\ reg_last_op' = OpDone(op, t, "False", "none")
                /\ UNCHANGED <<reg_cache, reg_store>>
           ELSE IF ~HasAttributes(task)
           THEN /\ reg_last_op' = OpDone(op, t, "AttributeError", "none")
                /\ reg_cache' = [reg_cache EXCEPT ![t] = task]
                /\ UNCHANGED reg_store
           ELSE /\ reg_last_op' = OpDone(op, t, "True", WriteOutcome(updated))
                /\ reg_cache' = [reg_cache EXCEPT ![t] = new]
                /\ reg_store' = IF updated /\ reg_store[t].repr # "absent"
                                THEN [reg_store EXCEPT ![t] = RowAfterUpdate(@, new, error)]
                                ELSE reg_store
        /\ UNCHANGED <<reg_holder, reg_pc, reg_task, reg_result, reg_registered,
                       reg_after_register, retryVars>>

UpdateStatus(t, status, error, updated) ==
    UpdateStatusAs("update_status", t, status, error, updated)

\* cancel_task: return self.update_status(task_id, TaskStatus.CANCELLED)
CancelTask(t, updated) == UpdateStatusAs("cancel_task", t, "cancelled", None, updated)

\* retry_failed_task takes no lock.  Its reads: task = self.get_task(task_id)
\* (the cached object, else the row from storage, which is not cached), then
\* the tests on task.status and task.retry_count.
RetryCheck(r, t) ==
    LET task == ClaimLookup(t)
        result == IF task.repr = "absent" THEN "False"
                  ELSE IF ~HasAttributes(task) THEN "AttributeError"
                  ELSE IF task.status # "failed" THEN "False"
                  ELSE IF task.retry_count >= task.max_retries THEN "False"
                  ELSE "passed"
    IN  /\ reg_retry_pc[r] \in {"idle", "done"}
        /\ reg_retry_task' = [reg_retry_task EXCEPT ![r] = t]
        /\ reg_retry_local' = [reg_retry_local EXCEPT ![r] = 0]
        /\ IF result = "passed"
           THEN /\ reg_retry_pc' = [reg_retry_pc EXCEPT ![r] = "passed"]
                /\ reg_retry_result' = [reg_retry_result EXCEPT ![r] = "none"]
                /\ UNCHANGED reg_last_op
           ELSE /\ reg_retry_pc' = [reg_retry_pc EXCEPT ![r] = "done"]
                /\ reg_retry_result' = [reg_retry_result EXCEPT ![r] = result]
                /\ reg_last_op' = OpDone("retry_failed_task", t, result, "none")
        /\ UNCHANGED <<reg_cache, reg_store, reg_locks, reg_holder, reg_pc, reg_task,
                       reg_result, reg_registered, reg_after_register>>

\* retry_failed_task, registry.py:273-276: status, assignee and error are
\* written and the operand of retry_count += 1 is read.
RetryReset(r) ==
    LET t == reg_retry_task[r]
    IN  /\ reg_retry_pc[r] = "passed"
        /\ reg_cache' = [reg_cache EXCEPT ![t].status = "pending",
                                          ![t].assignee_agent_id = None,
                                          ![t].error_message = None]
        /\ reg_retry_local' = [reg_retry_local EXCEPT ![r] = reg_cache[t].retry_count]
        /\ reg_retry_pc' = [reg_retry_pc EXCEPT ![r] = "loaded"]
        /\ UNCHANGED <<reg_store, reg_locks, reg_holder, reg_pc, reg_task, reg_result,
                       reg_registered, reg_after_register, reg_retry_task,
                       reg_retry_result, reg_last_op>>

\* retry_failed_task, registry.py:276-284: the incremented count is stored,
\* self.storage.update_task(...) is called outside any try, return True.
RetryStore(r, updated) ==
    LET t == reg_retry_task[r]
        count == reg_retry_local[r] + 1
        result == IF updated THEN "True" ELSE "StoreError"
    IN  /\ reg_retry_pc[r] = "loaded"
        /\ reg_cache' = [reg_cache EXCEPT ![t].retry_count = count]
        /\ reg_store' = IF updated /\ reg_store[t].repr # "absent"
                        THEN [reg_store EXCEPT ![t].status = "pending",
                                               ![t].retry_count = count]
                        ELSE reg_store
        /\ reg_retry_pc' = [reg_retry_pc EXCEPT ![r] = "done"]
        /\ reg_retry_result' = [reg_retry_result EXCEPT ![r] = result]
        /\ reg_last_op' = OpDone("retry_failed_task", t, result, WriteOutcome(updated))
        /\ UNCHANGED <<reg_locks, reg_holder, reg_pc, reg_task, reg_result,
                       reg_registered, reg_after_register, reg_retry_task,
                       reg_retry_local>>

-----------------------------------------------------------------------------
(* AHPReceiver.receive and AsyncAHPReceiver.receive: one receiving agent,   *)
(* its mailbox, and the ACK envelopes it puts into its senders' mailboxes.  *)

\* The threaded classes and their asyncio counterparts
Variants == {"sync", "async"}

RcvSenders == {"leader", "agent_top"}

RcvEnvelopes == [method : Methods, agent_id : RcvSenders]

\* ahp.py:445-449 the methods receive acknowledges
AckedMethods == {"TASK", "RESULT", "PROGRESS"}

\* An ACK sent for every envelope received with auto_ack, ACK included
SendsAckForAnyMethod(variant, auto_ack, msg) == variant = "sync" /\ auto_ack

\* ahp.py:444-450: the threaded receiver acknowledges when auto_ack is set
\* and the method is one of the three; AsyncAHPReceiver.receive (730-738)
\* takes auto_ack and never reads it.
SendsAck(variant, auto_ack, msg) ==
    variant = "sync" /\ auto_ack /\ msg.method \in AckedMethods

RcvConfigured(variant) ==
    /\ rcv_variant = variant
    /\ rcv_mailbox = <<>>
    /\ rcv_delivered = 0
    /\ rcv_acks = [a \in RcvSenders |-> 0]
    /\ rcv_acks_before = [a \in RcvSenders |-> 0]
    /\ rcv_auto_ack = TRUE
    /\ rcv_last_msg = <<>>

RcvIdle == RcvConfigured("sync")

RcvInit == \E variant \in Variants : RcvConfigured(variant)

\* Some agent sends an envelope to the receiver: a fresh message id, so
\* MessageQueue.send enqueues it.
RcvDeliver(msg) ==
    /\ rcv_delivered < MaxDeliveries
    /\ rcv_delivered' = rcv_delivered + 1
    /\ rcv_mailbox' = Append(rcv_mailbox, msg)
    /\ UNCHANGED <<rcv_variant, rcv_acks, rcv_acks_before, rcv_auto_ack, rcv_last_msg>>

\* receive(timeout, auto_ack): the mailbox read returns None on expiry;
\* otherwise the envelope is returned, after _send_ack(msg) where it applies,
\* which sends one ACK to original_msg.agent_id.
ReceiverReceive(auto_ack) ==
    /\ rcv_auto_ack' = auto_ack
    /\ rcv_acks_before' = rcv_acks
    /\ IF rcv_mailbox = <<>>
       THEN /\ rcv_last_msg' = <<>>
            /\ UNCHANGED <<rcv_mailbox, rcv_acks>>
       ELSE LET msg == Head(rcv_mailbox)
            IN /\ rcv_last_msg' = <<msg>>
               /\ rcv_mailbox' = Tail(rcv_mailbox)
               /\ rcv_acks' = IF SendsAck(rcv_variant, auto_ack, msg)
                               THEN [rcv_acks EXCEPT ![msg.agent_id] = @ + 1]
                               ELSE rcv_acks
    /\ UNCHANGED <<rcv_variant, rcv_delivered>>

\* The value returned were the method test of wait_for_task left out
AnyMessageOrNone(received) == received

\* ahp.py:475-477, 743-745: `if msg and msg.method == AHPMethod.TASK: return msg`,
\* else `return None`
TaskOrNone(received) ==
    IF received # <<>> /\ received[1].method = "TASK" THEN received ELSE <<>>

WtIdle ==
    /\ wt_last_op = "none"
    /\ wt_before = <<>>
    /\ wt_result = <<>>

\* ahp.py:472-477, 740-745 wait_for_task: msg = self.receive(timeout), with
\* auto_ack left at its default True, then the test of the method
WaitForTask ==
    /\ ReceiverReceive(TRUE)
    /\ wt_last_op' = "wait_for_task"
    /\ wt_before' = rcv_mailbox
    /\ wt_result' = TaskOrNone(rcv_last_msg')

\* an envelope is sent to the receiving agent between two calls
WtDeliver(msg) ==
    /\ RcvDeliver(msg)
    /\ wt_last_op' = "send"
    /\ UNCHANGED <<wt_before, wt_result>>

-----------------------------------------------------------------------------
(* Leader fan-in: LeaderAgent._collect_results (threads) and               *)
(* AsyncLeaderAgent._collect_results (asyncio), with the workers'          *)
(* _handle_task.  The state starts where _collect_results starts: the four *)
(* TASK envelopes have been dispatched, one to each worker.                *)

\* leader_agent.py:442-447 category_agent_map, agent -> category
CategoryOf == [agent_head |-> "head", agent_top |-> "top",
               agent_bottom |-> "bottom", agent_shoes |-> "shoes"]

Workers == DOMAIN CategoryOf

Leader == "leader"

\* ahp.py:361,381 AHPSender stamps agent_id="leader" on every envelope; the
\* worker's AHPSender(self.mq, self.agent_id) passes its id as the token
\* controller (sub_agent.py:68).  AsyncAHPSender stamps self.agent_id
\* (ahp.py:693,713), which the async worker sets to its own id (sub_agent.py:432).
SenderId(variant, w) == IF variant = "sync" THEN Leader ELSE w

\* ahp.py:453-467 AHPReceiver._send_ack: agent_id is the receiver's own id
AckMsg(w) ==
    [method |-> "ACK", agent_id |-> w, status |-> None, category |-> None, progress |-> 0]

\* ahp.py:370-388, 702-721 send_progress; progress in percent
ProgressMsg(variant, w, p) ==
    [method |-> "PROGRESS", agent_id |-> SenderId(variant, w), status |-> None,
     category |-> None, progress |-> p]

\* sub_agent.py:138-151 payload {"result": {"category": self.category, ...}, "status": "success"}
SuccessMsg(variant, w) ==
    [method |-> "RESULT", agent_id |-> SenderId(variant, w), status |-> "success",
     category |-> CategoryOf[w], progress |-> 0]

\* sub_agent.py:156-158 payload {"result": {"error": str(e)}, "status": "failed"}: no category key
FailedMsg(variant, w) ==
    [method |-> "RESULT", agent_id |-> SenderId(variant, w), status |-> "failed",
     category |-> None, progress |-> 0]

\* ahp.py:435-451: the threaded worker's wait_for_task acknowledges the TASK
\* to its sender, the leader; AsyncAHPReceiver.receive (730-738) sends no ACK.
TaskAck(variant, w) == IF variant = "sync" THEN <<AckMsg(w)>> ELSE <<>>

\* sub_agent.py:99-162 / 467-532 the envelopes _handle_task sends to "leader":
\* on success PROGRESS 0.1, 0.5, 0.9 and RESULT success; when _recommend
\* raises, PROGRESS 0.1, 0.5 and RESULT failed.
Replies(variant, w, outcome) ==
    IF outcome = "success"
    THEN <<ProgressMsg(variant, w, 10), ProgressMsg(variant, w, 50),
           ProgressMsg(variant, w, 90), SuccessMsg(variant, w)>>
    ELSE <<ProgressMsg(variant, w, 10), ProgressMsg(variant, w, 50), FailedMsg(variant, w)>>

\* sub_agent.py:159 self.mq.to_dlq(self.agent_id, msg, str(e)): only the
\* threaded worker's except branch; the async one (528-532) has no to_dlq.
WorkerDlq(variant, w, outcome, dlq) ==
    IF variant = "sync" /\ outcome = "failed" THEN [dlq EXCEPT ![w] = @ + 1] ELSE dlq

DlqTotal == SumOver(col_dlq, DOMAIN col_dlq)

ColConfigured(variant) ==
    /\ col_variant = variant
    /\ col_leader_queue = <<>>
    /\ col_worker = [w \in Workers |-> "waiting"]
    /\ col_dlq = [a \in Workers \cup {Leader} |-> 0]
    /\ col_results = {}
    /\ col_received = {}
    /\ col_progress_queue = <<>>
    /\ col_expired = FALSE
    /\ col_pc = "collecting"
    /\ col_missing = {}
    /\ col_at_return = [worker |-> [w \in Workers |-> "waiting"], drained |-> FALSE]

ColIdle == ColConfigured("sync")

ColInit == \E variant \in Variants : ColConfigured(variant)

\* sub_agent.py:89-97 _run_loop: wait_for_task returns the TASK, then _handle_task
WorkerHandlesTask(w, outcome) ==
    /\ col_worker[w] = "waiting"
    /\ col_worker' = [col_worker EXCEPT ![w] = outcome]
    /\ col_leader_queue' = col_leader_queue \o TaskAck(col_variant, w)
                                            \o Replies(col_variant, w, outcome)
    /\ col_dlq' = WorkerDlq(col_variant, w, outcome, col_dlq)
    /\ UNCHANGED <<col_variant, col_results, col_received, col_progress_queue,
                   col_expired, col_pc, col_missing, col_at_return>>

\* leader_agent.py:570, 1181 the while condition
LoopConditionNoDeadline == Cardinality(col_received) < Cardinality(Workers)

LoopCondition == Cardinality(col_received) < Cardinality(Workers) /\ ~col_expired

\* leader_agent.py:602-633: in the threaded loop the block that reads a
\* RESULT is indented under `if msg.method == AHPMethod.PROGRESS:` after
\* its `continue`, so control never enters it, for any envelope.
SyncResultBlockRuns(msg) == msg.method = "PROGRESS" /\ FALSE

\* leader_agent.py:607-633 what that block would do: a failed reply goes to
\* the dead-letter sink and its sender is marked received; a successful one
\* is stored under its category
SyncResultBlock(msg, st) ==
    IF msg.status = "failed"
    THEN [st EXCEPT !.dlq = [@ EXCEPT ![msg.agent_id] = @ + 1],
                    !.received = @ \cup {msg.agent_id}]
    ELSE [st EXCEPT !.results = @ \cup {IF msg.category = None THEN "unknown" ELSE msg.category},
                    !.received = @ \cup {msg.agent_id}]

\* leader_agent.py:592-651 one envelope through the threaded loop's branches
SyncHandle(msg, st) ==
    IF msg.method = "ACK" THEN st
    ELSE IF SyncResultBlockRuns(msg) THEN SyncResultBlock(msg, st)
    ELSE st

\* The asyncio loop's RESULT branch taken for every method
AsyncHandleAnyMethod(msg, st) ==
    [st EXCEPT !.results = @ \cup {IF msg.category = None THEN "unknown" ELSE msg.category},
               !.received = @ \cup {msg.agent_id}]

\* leader_agent.py:1194-1213 one envelope through the asyncio loop's
\* branches: every RESULT, whatever its status, is stored under
\* result_data.get("category", "unknown") and its sender marked received
AsyncHandle(msg, st) ==
    IF msg.method = "RESULT"
    THEN [st EXCEPT !.results = @ \cup {IF msg.category = None THEN "unknown" ELSE msg.category},
                    !.received = @ \cup {msg.agent_id}]
    ELSE st

Handle(variant, msg, st) ==
    IF variant = "sync" THEN SyncHandle(msg, st) ELSE AsyncHandle(msg, st)

\* leader_agent.py:570-587 / 1181-1186 the head of one iteration of the while
\* loop: progress_queue is drained and receive("leader", timeout=2) is called
CollectIteration ==
    /\ col_pc = "collecting"
    /\ LoopCondition
    /\ col_pc' = "receiving"
    /\ col_progress_queue' = <<>>
    /\ UNCHANGED <<col_variant, col_leader_queue, col_worker, col_dlq, col_results,
                   col_received, col_expired, col_missing, col_at_return>>

ReceiveNeverExpires(queue) == FALSE

\* ahp.py:168-173, 568-574 receive: get(timeout=timeout) gives up on an
\* empty mailbox when the timeout expires, and None is returned
ReceiveExpires(queue) == queue = <<>>

\* leader_agent.py:587-651 / 1186-1213 receive returns: None goes back to the
\* loop head, an envelope is demultiplexed first
CollectReceive ==
    /\ col_pc = "receiving"
    /\ col_leader_queue # <<>> \/ ReceiveExpires(col_leader_queue)
    /\ col_pc' = "collecting"
    /\ IF col_leader_queue = <<>>
       THEN UNCHANGED <<col_leader_queue, col_results, col_received, col_dlq>>
       ELSE LET st == Handle(col_variant, Head(col_leader_queue),
                             [results |-> col_results, received |-> col_received,
                              dlq |-> col_dlq])
            IN /\ col_leader_queue' = Tail(col_leader_queue)
               /\ col_results' = st.results
               /\ col_received' = st.received
               /\ col_dlq' = st.dlq
    /\ UNCHANGED <<col_variant, col_worker, col_expired, col_progress_queue, col_missing,
                   col_at_return>>

\* leader_agent.py:653-664 / 1215-1220 after the loop: missing, return results
CollectReturn ==
    /\ col_pc = "collecting"
    /\ ~LoopCondition
    /\ col_missing' = Workers \ col_received
    /\ col_pc' = "returned"
    /\ col_at_return' = [worker |-> col_worker, drained |-> col_leader_queue = <<>>]
    /\ UNCHANGED <<col_variant, col_leader_queue, col_worker, col_dlq, col_results,
                   col_received, col_progress_queue, col_expired>>

\* leader_agent.py:550-569 progress_handler, the daemon thread of the
\* threaded variant: it reads the same "leader" mailbox until the deadline,
\* queues PROGRESS for the main loop and drops everything else
ProgressHandler ==
    /\ col_variant = "sync"
    /\ ~col_expired
    /\ col_leader_queue # <<>>
    /\ col_leader_queue' = Tail(col_leader_queue)
    /\ col_progress_queue' = IF Head(col_leader_queue).method = "PROGRESS"
                             THEN Append(col_progress_queue, Head(col_leader_queue))
                             ELSE col_progress_queue
    /\ UNCHANGED <<col_variant, col_worker, col_dlq, col_results, col_received,
                   col_expired, col_pc, col_missing, col_at_return>>

\* leader_agent.py:570, 1181 time.time() - start reaches timeout
DeadlineElapses ==
    /\ ~col_expired
    /\ col_expired' = TRUE
    /\ UNCHANGED <<col_variant, col_leader_queue, col_worker, col_dlq, col_results,
                   col_received, col_progress_queue, col_pc, col_missing, col_at_return>>

-----------------------------------------------------------------------------
(* OutfitSubAgent and AsyncOutfitSubAgent: start, stop and _run_loop. The   *)
(* state after start(): _running is True and the loop is about to test it.  *)

\* _handle_task sends progress 0.1, 0.5, 0.9 and then the RESULT; in the async
\* class each send is awaited.
HandleSteps == 4

WkConfigured(variant) ==
    /\ wk_variant = variant
    /\ wk_running = TRUE
    /\ wk_pc = "loop_head"
    /\ wk_step = 0
    /\ wk_mailbox = 0
    /\ wk_arrived = 0
    /\ wk_stopped = FALSE
    /\ wk_begun_after_stop = FALSE
    /\ wk_interrupted = FALSE
    /\ wk_finished = 0

WkIdle == WkConfigured("sync")

WkInit == \E variant \in Variants : WkConfigured(variant)

\* The leader sends the worker a TASK envelope.
WorkerTaskArrives ==
    /\ wk_arrived < MaxWorkerTasks
    /\ wk_arrived' = wk_arrived + 1
    /\ wk_mailbox' = wk_mailbox + 1
    /\ UNCHANGED <<wk_variant, wk_running, wk_pc, wk_step, wk_stopped,
                   wk_begun_after_stop, wk_interrupted, wk_finished>>

\* while self._running: the flag is read, then wait_for_task(timeout=5) is called
RunLoopHead ==
    /\ wk_pc = "loop_head"
    /\ wk_pc' = IF wk_running THEN "polling" ELSE "exited"
    /\ UNCHANGED <<wk_variant, wk_running, wk_step, wk_mailbox, wk_arrived, wk_stopped,
                   wk_begun_after_stop, wk_interrupted, wk_finished>>

\* wait_for_task returns: a TASK from the mailbox, which is handled, or None
\* when the timeout expired. `if msg:` is the only test between the return of
\* wait_for_task and _handle_task(msg); _running is not read again.
RunLoopPollReturns ==
    /\ wk_pc = "polling"
    /\ IF wk_mailbox > 0
       THEN /\ wk_mailbox' = wk_mailbox - 1
            /\ wk_pc' = "handling"
            /\ wk_step' = 0
            /\ wk_begun_after_stop' = (wk_begun_after_stop \/ wk_stopped)
       ELSE /\ wk_pc' = "loop_head"
            /\ UNCHANGED <<wk_mailbox, wk_step, wk_begun_after_stop>>
    /\ UNCHANGED <<wk_variant, wk_running, wk_arrived, wk_stopped, wk_interrupted,
                   wk_finished>>

\* _handle_task: the next envelope goes to the leader; after the RESULT the
\* loop is at its head again.
HandleTaskStep ==
    /\ wk_pc = "handling"
    /\ IF wk_step + 1 = HandleSteps
       THEN /\ wk_pc' = "loop_head"
            /\ wk_step' = 0
            /\ wk_finished' = wk_finished + 1
       ELSE /\ wk_step' = wk_step + 1
            /\ UNCHANGED <<wk_pc, wk_finished>>
    /\ UNCHANGED <<wk_variant, wk_running, wk_mailbox, wk_arrived, wk_stopped,
                   wk_begun_after_stop, wk_interrupted>>

\* AsyncOutfitSubAgent.stop: self._task.cancel() raises CancelledError at the
\* await the task is suspended in. _handle_task's `except Exception` does not
\* catch it; _run_loop's `except asyncio.CancelledError: break` does.
\* OutfitSubAgent.stop has no handle on the thread.
CancelsTask(variant) == variant = "async"

\* stop(): _running = False; the async class then cancels its task and awaits it.
WorkerStop ==
    /\ ~wk_stopped
    /\ wk_running' = FALSE
    /\ wk_stopped' = TRUE
    /\ IF CancelsTask(wk_variant) /\ wk_pc # "exited"
       THEN /\ wk_pc' = "exited"
            /\ wk_interrupted' = (wk_interrupted \/ wk_pc = "handling")
       ELSE UNCHANGED <<wk_pc, wk_interrupted>>
    /\ UNCHANGED <<wk_variant, wk_step, wk_mailbox, wk_arrived, wk_begun_after_stop,
                   wk_finished>>

-----------------------------------------------------------------------------
(* TokenController.create_compact_instruction (AsyncTokenController has the *)
(* same body). Texts are modelled by their lengths; a section is its name   *)
(* and the length of its line.                                              *)

\* TokenController.__init__: default_limit
DefaultLimit == 500
\* the fixed reserve subtracted from the limit
ContextReserve == 50
\* the context is appended only when more than this many characters remain
ContextThreshold == 100

TokProfiles == [category : {3}, name : {4}, key_info : {0, 20}, instruction : {0, 30}]
ContextLengths == {0, 1, 150, 400, 600}
TokBudgets == {<<>>} \cup {<<n>> : n \in (0 - 1)..MaxTokenBudget}

Section(name, len) == [name |-> name, len |-> len]

\* instruction_parts before the context: "Task: ...", "Target: ...", then
\* "User Info: ..." when key_info is not empty and "Requirement: ..." when
\* task["instruction"] is truthy.
AssembleSections(profile) ==
    <<Section("Task", 6 + profile.category), Section("Target", 8 + profile.name)>>
    \o (IF profile.key_info > 0 THEN <<Section("User Info", 11 + profile.key_info)>> ELSE <<>>)
    \o (IF profile.instruction > 0
        THEN <<Section("Requirement", 13 + profile.instruction)>> ELSE <<>>)

RECURSIVE SumLen(_)
SumLen(parts) == IF parts = <<>> THEN 0 ELSE Head(parts).len + SumLen(Tail(parts))

\* limit = max_tokens or self.default_limit: None and 0 are both falsy
Limit(max_tokens) ==
    IF max_tokens = <<>> \/ max_tokens[1] = 0 THEN DefaultLimit ELSE max_tokens[1]

\* available = limit - sum(len(p) for p in instruction_parts) - 50
Available(parts, max_tokens) == Limit(max_tokens) - SumLen(parts) - ContextReserve

\* context[:available], for available > 0
Truncated(context, available) == IF context <= available THEN context ELSE available

CreateCompactInstruction(profile, context, max_tokens) ==
    LET parts == AssembleSections(profile)
        available == Available(parts, max_tokens)
    IN IF context > 0 /\ available > ContextThreshold
       THEN Append(parts, Section("Context", 9 + Truncated(context, available)))
       ELSE parts

TokIdle ==
    /\ tok_profile = [category |-> 3, name |-> 4, key_info |-> 0, instruction |-> 0]
    /\ tok_context = 0
    /\ tok_max_tokens = <<>>
    /\ tok_out = <<>>

TokInit ==
    /\ tok_profile \in TokProfiles
    /\ tok_context \in ContextLengths
    /\ tok_max_tokens \in TokBudgets
    /\ tok_out = <<>>

TokCreate ==
    /\ tok_out = <<>>
    /\ tok_out' = <<CreateCompactInstruction(tok_profile, tok_context, tok_max_tokens)>>
    /\ UNCHANGED <<tok_profile, tok_context, tok_max_tokens>>

-----------------------------------------------------------------------------
(* MessageQueue: the dead-letter lists and the per-message retry counters.  *)

\* MessageQueue.__init__: max_retries
DefaultMsgMaxRetries == 3

DlqErrors == {"", "Test error"}

\* A datetime: whole seconds, microseconds, and the UTC offset of an aware
\* value (<<>> for a naive one, which is what datetime.now() returns).
DateTime(s, us, tz) == [s |-> s, us |-> us, tz |-> tz]

Now(clock) == DateTime(clock, 0, <<>>)

IsoFormatNoFraction(dt) == [s |-> dt.s, frac |-> <<>>, offset |-> dt.tz]

\* datetime.isoformat(): the fraction is written only when microsecond is not
\* 0, the offset only for an aware value
IsoFormat(dt) ==
    [s |-> dt.s, frac |-> IF dt.us = 0 THEN <<>> ELSE <<dt.us>>, offset |-> dt.tz]

\* datetime.fromisoformat(): a missing fraction reads as microsecond 0
FromIsoFormat(text) ==
    DateTime(text.s, IF text.frac = <<>> THEN 0 ELSE text.frac[1], text.offset)

\* AHPMessage.to_dict: the fields by name, the timestamp as ISO text
ToDict(m) == [f \in DOMAIN m |-> IF f = "timestamp" THEN IsoFormat(m[f]) ELSE m[f]]

FabOp(op, agent, id, msg, error, ret_bool, ret_count) ==
    [op |-> op, agent |-> agent, id |-> id, msg |-> msg, error |-> error,
     ret_bool |-> ret_bool, ret_count |-> ret_count]

FabConfigured(max) ==
    /\ mq_dlq = [a \in Recipients |-> <<>>]
    /\ mq_retry_count = [i \in MsgIds |-> 0]
    /\ mq_max_retries = max
    /\ mq_now = 0
    /\ mq_incs = [i \in MsgIds |-> 0]
    /\ mq_last_op = FabOp("init", None, None, <<>>, "", FALSE, 0)
    /\ mq_dlq_ops = 0

FabIdle == FabConfigured(DefaultMsgMaxRetries)

FabInit == \E max \in 0..DefaultMsgMaxRetries : FabConfigured(max)

\* to_dlq, under self._lock: one entry is appended to the agent's list
DlqEntry(message, error, now, counts) ==
    [message |-> ToDict(message), error |-> error, timestamp |-> IsoFormat(Now(now)),
     retry_count |-> counts[message.message_id]]

ToDlq(agent, message, error) ==
    /\ mq_dlq_ops < MaxDlqEntries
    /\ mq_dlq_ops' = mq_dlq_ops + 1
    /\ mq_now' = mq_now + 1
    /\ mq_dlq' = [mq_dlq EXCEPT ![agent] =
                    Append(@, DlqEntry(message, error, mq_now', mq_retry_count))]
    /\ mq_last_op' = FabOp("to_dlq", agent, message.message_id, <<message>>, error, FALSE, 0)
    /\ UNCHANGED <<mq_retry_count, mq_max_retries, mq_incs>>

\* clear_dlq(agent_id): that agent's list becomes []; with no agent_id the
\* whole table is replaced by {}
ClearDlq(agent) ==
    /\ mq_dlq' = IF agent # None
                 THEN [mq_dlq EXCEPT ![agent] = <<>>]
                 ELSE [a \in Recipients |-> <<>>]
    /\ mq_last_op' = FabOp("clear_dlq", agent, None, <<>>, "", FALSE, 0)
    /\ UNCHANGED <<mq_retry_count, mq_max_retries, mq_now, mq_incs, mq_dlq_ops>>

MqShouldRetryInclusive(counts, id) == counts[id] <= mq_max_retries

\* should_retry: self._retry_count.get(message_id, 0) < self._max_retries
MqShouldRetry(counts, id) == counts[id] < mq_max_retries

ShouldRetryCall(id) ==
    /\ mq_last_op' = FabOp("should_retry", None, id, <<>>, "",
                           MqShouldRetry(mq_retry_count, id), 0)
    /\ UNCHANGED <<mq_dlq, mq_retry_count, mq_max_retries, mq_now, mq_incs, mq_dlq_ops>>

\* increment_retry, under self._lock: the new count is stored and returned
IncrementRetry(id) ==
    /\ mq_retry_count[id] < MaxRetryCount
    /\ mq_retry_count' = [mq_retry_count EXCEPT ![id] = @ + 1]
    /\ mq_incs' = [mq_incs EXCEPT ![id] = @ + 1]
    /\ mq_last_op' = FabOp("increment_retry", None, id, <<>>, "", FALSE,
                           mq_retry_count[id] + 1)
    /\ UNCHANGED <<mq_dlq, mq_max_retries, mq_now, mq_dlq_ops>>

\* reset_retry: self._retry_count.pop(message_id, None)
ResetRetry(id) ==
    /\ mq_retry_count' = [mq_retry_count EXCEPT ![id] = 0]
    /\ mq_incs' = [mq_incs EXCEPT ![id] = 0]
    /\ mq_last_op' = FabOp("reset_retry", None, id, <<>>, "", FALSE, 0)
    /\ UNCHANGED <<mq_dlq, mq_max_retries, mq_now, mq_dlq_ops>>

-----------------------------------------------------------------------------
(* MessageQueue.broadcast, and the order in which a mailbox hands out what  *)
(* was put into it. The thread "t1" broadcasts, "t2" sends on its own.      *)

Broadcaster == "t1"

\* agent_ids: two recipients, one recipient listed twice, and a recipient
\* listed again after another one
BroadcastLists == {<<"head", "top">>, <<"top", "top">>, <<"head", "top", "head">>}

BcIdle ==
    /\ bc_rest = <<>>
    /\ bc_msg = <<>>
    /\ bc_running = FALSE
    /\ bc_turns = <<>>
    /\ bc_puts = 0
    /\ mq_enq_log = [a \in Recipients |-> <<>>]
    /\ mq_recv_log = [a \in Recipients |-> <<>>]
    /\ th_log = [t \in Threads |-> <<>>]

\* What a send leaves behind: the sender's own record of the sends that
\* passed the duplicate test.
LoggedSend(t, agent, message) ==
    /\ SendLocked(t, agent, message)
    /\ th_log' = [th_log EXCEPT ![t] =
                    IF th_pc'[t] = "put" THEN Append(@, <<agent, message>>) ELSE @]
    /\ UNCHANGED <<mq_enq_log, mq_recv_log>>

LoggedPut(t) ==
    /\ SendPut(t)
    /\ mq_enq_log' = [mq_enq_log EXCEPT ![th_arg[t][1]] = Append(@, <<t, th_arg[t][2]>>)]
    /\ bc_puts' = IF t = Broadcaster /\ bc_running THEN bc_puts + 1 ELSE bc_puts
    /\ UNCHANGED <<mq_recv_log, th_log, bc_rest, bc_msg, bc_running, bc_turns>>

LoggedReceive(agent) ==
    /\ Receive(agent)
    /\ mq_recv_log' = [mq_recv_log EXCEPT ![agent] =
                          IF mq_queues[agent] # <<>>
                          THEN Append(@, Head(mq_queues[agent])) ELSE @]
    /\ UNCHANGED <<mq_enq_log, th_log, bc_rest, bc_msg, bc_running, bc_turns, bc_puts>>

\* broadcast(agent_ids, message) is called
BroadcastBegin(agent_ids, message) ==
    /\ th_pc[Broadcaster] = "idle"
    /\ ~bc_running
    /\ TotalSent + Len(agent_ids) <= MaxSends
    /\ bc_rest' = agent_ids
    /\ bc_msg' = <<message>>
    /\ bc_running' = TRUE
    /\ bc_turns' = <<>>
    /\ bc_puts' = 0
    /\ UNCHANGED <<mq_enq_log, mq_recv_log, th_log>>

\* for agent_id in agent_ids: self.send(agent_id, message), up to its put
BroadcastSend ==
    /\ bc_rest # <<>>
    /\ LoggedSend(Broadcaster, Head(bc_rest), bc_msg[1])
    /\ bc_rest' = Tail(bc_rest)
    /\ bc_turns' = Append(bc_turns,
                          [agent |-> Head(bc_rest),
                           seen |-> mq_sent[Head(bc_rest)][bc_msg[1].message_id] > 0,
                           put |-> th_pc'[Broadcaster] = "put"])
    /\ UNCHANGED <<bc_msg, bc_running, bc_puts>>

\* The for loop is over after the send to the last recipient: broadcast returns.
BroadcastReturn ==
    /\ bc_running
    /\ bc_rest = <<>>
    /\ th_pc[Broadcaster] = "idle"
    /\ bc_running' = FALSE
    /\ UNCHANGED <<bc_rest, bc_msg, bc_turns, bc_puts, mq_enq_log, mq_recv_log, th_log>>

\* A send of its own by a thread that is not inside broadcast.
PlainSend(t, agent, message) ==
    /\ t # Broadcaster \/ ~bc_running
    /\ LoggedSend(t, agent, message)
    /\ UNCHANGED <<bc_rest, bc_msg, bc_running, bc_turns, bc_puts>>

-----------------------------------------------------------------------------
(* AHPMessage.to_dict and from_dict: an envelope is written as a dict and   *)
(* read back, and both are sent to the same recipient.                      *)

\* timestamps: naive and aware, with and without microseconds
DateTimes == {DateTime(s, us, tz) : s \in {0, 1}, us \in {0, 500000}, tz \in {<<>>, <<0>>, <<330>>}}

\* AHPMessage: the nine fields of the dataclass
AHPMessages ==
    [method : {"TASK", "PROGRESS"}, agent_id : {"leader"}, target_agent : {"head"},
     task_id : {"", "task_123"}, session_id : {"session_456"},
     payload : {"{}", "{progress: 0.5}"}, token_limit : {0, 500},
     timestamp : DateTimes, message_id : MsgIds]

\* data.get(key, default)
Get(data, key, default) == IF key \in DOMAIN data THEN data[key] ELSE default

\* AHPMessage.from_dict: a timestamp that is text is parsed, a missing one is
\* datetime.now(); a missing message_id is a fresh uuid4
FromDict(data, now) ==
    [method |-> Get(data, "method", ""),
     agent_id |-> Get(data, "agent_id", ""),
     target_agent |-> Get(data, "target_agent", ""),
     task_id |-> Get(data, "task_id", ""),
     session_id |-> Get(data, "session_id", ""),
     payload |-> Get(data, "payload", "{}"),
     token_limit |-> Get(data, "token_limit", 500),
     timestamp |-> IF "timestamp" \in DOMAIN data
                   THEN FromIsoFormat(data["timestamp"]) ELSE Now(now),
     message_id |-> Get(data, "message_id", "fresh_uuid4")]

RtIdle ==
    /\ rt_msg = [method |-> "TASK", agent_id |-> "leader", target_agent |-> "head",
                 task_id |-> "", session_id |-> "session_456", payload |-> "{}",
                 token_limit |-> 500, timestamp |-> Now(0), message_id |-> "m1"]
    /\ rt_dict = <<>>
    /\ rt_restored = <<>>
    /\ rt_sends = <<>>

RtInit ==
    /\ rt_msg \in AHPMessages
    /\ rt_dict = <<>>
    /\ rt_restored = <<>>
    /\ rt_sends = <<>>

RtToDict ==
    /\ rt_dict = <<>>
    /\ rt_dict' = <<ToDict(rt_msg)>>
    /\ UNCHANGED <<rt_msg, rt_restored, rt_sends>>

RtFromDict ==
    /\ rt_dict # <<>>
    /\ rt_restored = <<>>
    /\ rt_restored' = <<FromDict(rt_dict[1], mq_now)>>
    /\ UNCHANGED <<rt_msg, rt_dict, rt_sends>>

\* send("head", m) or send("head", restored), the part under the lock
RtSend(which) ==
    /\ which = "restored" => rt_restored # <<>>
    /\ SendLocked("t1", "head", IF which = "restored" THEN rt_restored[1] ELSE rt_msg)
    /\ rt_sends' = Append(rt_sends, which)
    /\ UNCHANGED <<rt_msg, rt_dict, rt_restored>>

-----------------------------------------------------------------------------
(* One session of the leader: process() dispatches the tasks and then      *)
(* collects, reading a "leader" mailbox that get_message_queue() shares     *)
(* with every earlier session.                                              *)

\* leader_agent.py:437, 455-479 the tasks in the order create_tasks builds them
DispatchOrder == <<"agent_head", "agent_top", "agent_bottom", "agent_shoes">>

\* A RESULT envelope of an earlier session: its session_id is not the
\* current one
EarlierResult(sender, category) ==
    [method |-> "RESULT", agent_id |-> sender, status |-> "success",
     category |-> category, progress |-> 0, session_id |-> "earlier"]

\* ahp.py:512-519 the queue is one global object, so the "leader" mailbox
\* may still hold a reply of an earlier session when process() starts: a
\* reply of a worker that is an assignee again, or of an agent that is not
Leftovers(variant) ==
    {<<>>,
     <<EarlierResult(SenderId(variant, "agent_head"), "head")>>,
     <<EarlierResult("agent_accessory", "accessory")>>}

\* _collect_results has been entered, every TASK sent
SesIdle ==
    /\ ses_to_dispatch = <<>>
    /\ ses_tasks = [w \in Workers |-> 1]

\* leader_agent.py:278-294 process() up to the dispatch
SesInit ==
    /\ ses_to_dispatch = DispatchOrder
    /\ ses_tasks = [w \in Workers |-> 0]
    /\ \E variant \in Variants :
          /\ col_variant = variant
          /\ col_leader_queue \in Leftovers(variant)
    /\ col_worker = [w \in Workers |-> "waiting"]
    /\ col_dlq = [a \in Workers \cup {Leader} |-> 0]
    /\ col_results = {}
    /\ col_received = {}
    /\ col_progress_queue = <<>>
    /\ col_expired = FALSE
    /\ col_pc = "collecting"
    /\ col_missing = {}
    /\ col_at_return = [worker |-> [w \in Workers |-> "waiting"], drained |-> FALSE]

\* leader_agent.py:494-524 / 1140-1169 one send_task of the dispatch
DispatchTask ==
    /\ ses_to_dispatch # <<>>
    /\ ses_tasks' = [ses_tasks EXCEPT ![Head(ses_to_dispatch)] = @ + 1]
    /\ ses_to_dispatch' = Tail(ses_to_dispatch)
    /\ UNCHANGED colVars

\* The workers every missing sender's TASK would be sent to again
ResentToMissing(missing) == missing

\* leader_agent.py:653-664 / 1215-1220 after the loop the missing senders
\* are logged; no TASK is sent to any of them
ResentTo(missing) == {}

\* leader_agent.py:653-664 / 1215-1220 the end of _collect_results
SessionCollectReturn ==
    /\ CollectReturn
    /\ ses_tasks' = [w \in Workers |->
                        ses_tasks[w] + IF w \in ResentTo(col_missing') THEN 1 ELSE 0]
    /\ UNCHANGED ses_to_dispatch

-----------------------------------------------------------------------------
(* Acknowledgments between agents that poll their mailboxes with receive:   *)
(* the envelopes senders produce, and the ACK envelopes receive sends back. *)

AckConfigured(variant) ==
    /\ ack_variant = variant
    /\ ack_mailbox = [a \in RcvSenders |-> <<>>]
    /\ ack_produced = 0
    /\ ack_acked = FALSE

AckIdle == AckConfigured("sync")

AckInit == \E variant \in Variants : AckConfigured(variant)

\* ahp.py:453-465 _send_ack: the ACK envelope names the receiving agent as
\* its sender
AckEnvelope(a) == [method |-> "ACK", agent_id |-> a]

\* A sender puts an envelope (send_task, send_result, send_progress or
\* send_ack, under the agent_id it stamps) into an agent's mailbox
AckProduce(a, msg) ==
    /\ ack_produced < MaxProduced
    /\ ack_produced' = ack_produced + 1
    /\ ack_mailbox' = [ack_mailbox EXCEPT ![a] = Append(@, msg)]
    /\ UNCHANGED <<ack_variant, ack_acked>>

\* ahp.py:435-451, 730-738 agent a polls: receive(timeout, auto_ack) takes
\* the head of a's mailbox and, where it applies, _send_ack puts one ACK into
\* the mailbox of original_msg.agent_id.  On an empty mailbox receive
\* returns None and nothing changes.
AckPoll(a, auto_ack) ==
    /\ ack_mailbox[a] # <<>>
    /\ LET msg == Head(ack_mailbox[a])
           taken == [ack_mailbox EXCEPT ![a] = Tail(@)]
       IN  IF SendsAck(ack_variant, auto_ack, msg)
           THEN /\ ack_mailbox' = [taken EXCEPT ![msg.agent_id] = Append(@, AckEnvelope(a))]
                /\ ack_acked' = TRUE
           ELSE /\ ack_mailbox' = taken
                /\ UNCHANGED ack_acked
    /\ UNCHANGED <<ack_variant, ack_produced>>

-----------------------------------------------------------------------------
(* Specifications: one per component; a step of one component leaves the   *)
(* others unchanged.                                                       *)

MQOnly == UNCHANGED <<cbVars, rhVars, regVars, colVars, guardVars, rcvVars, wkVars,
                      tokVars, fabVars, bcVars, rtVars, wtVars, sesVars, gcVars, ackVars>>

MQSendStep ==
    /\ \E t \in Threads, a \in Recipients, m \in Envelopes : SendLocked(t, a, m)
    /\ MQOnly

MQPutStep == (\E t \in Threads : SendPut(t)) /\ MQOnly

MQReceiveStep == (\E a \in Recipients : Receive(a)) /\ MQOnly

NextMQ == MQSendStep \/ MQPutStep \/ MQReceiveStep

InitMQ ==
    /\ MQInit
    /\ CBInit
    /\ RHIdle
    /\ RegIdle
    /\ ColIdle
    /\ GuardIdle
    /\ RcvIdle
    /\ RtIdle
    /\ FabIdle
    /\ BcIdle
    /\ WkIdle
    /\ TokIdle
    /\ WtIdle
    /\ SesIdle
    /\ GcIdle
    /\ AckIdle

SpecMQ == InitMQ /\ [][NextMQ]_vars

CBOnly == UNCHANGED <<mqVars, rhVars, regVars, colVars, guardVars, rcvVars, wkVars,
                      tokVars, fabVars, bcVars, rtVars, wtVars, sesVars, gcVars, ackVars>>

CbCanExecuteStep == CanExecute /\ CBOnly
CbRecordSuccessStep == RecordSuccess /\ CBOnly
CbRecordFailureStep == RecordFailure /\ CBOnly
CbResetStep == CbReset /\ CBOnly
CbTickStep == CbTick /\ CBOnly

NextBreaker ==
    \/ CbCanExecuteStep
    \/ CbRecordSuccessStep
    \/ CbRecordFailureStep
    \/ CbResetStep
    \/ CbTickStep

InitBreaker ==
    /\ CBInit
    /\ MQInit
    /\ RHIdle
    /\ RegIdle
    /\ ColIdle
    /\ GuardIdle
    /\ RtIdle
    /\ FabIdle
    /\ BcIdle
    /\ RcvIdle
    /\ WkIdle
    /\ TokIdle
    /\ WtIdle
    /\ SesIdle
    /\ GcIdle
    /\ AckIdle

SpecBreaker == InitBreaker /\ [][NextBreaker]_vars

RHOnly == UNCHANGED <<mqVars, cbVars, regVars, colVars, guardVars, rcvVars, wkVars,
                      tokVars, fabVars, bcVars, rtVars, wtVars, sesVars, gcVars, ackVars>>

RetryBeginStep == (\E key \in RetryKeys : RetryBegin(key)) /\ RHOnly
RetryReturnsStep == RetryCallReturns /\ RHOnly
RetryRaisesStep == (\E text \in ErrorTexts : RetryCallRaises(text)) /\ RHOnly

NextRetry == RetryBeginStep \/ RetryReturnsStep \/ RetryRaisesStep

InitRetry ==
    /\ RHInit
    /\ MQInit
    /\ CBInit
    /\ RegIdle
    /\ ColIdle
    /\ GuardIdle
    /\ RcvIdle
    /\ BcIdle
    /\ RtIdle
    /\ FabIdle
    /\ WkIdle
    /\ TokIdle
    /\ WtIdle
    /\ SesIdle
    /\ GcIdle
    /\ AckIdle

SpecRetry == InitRetry /\ [][NextRetry]_vars

RegOnly == UNCHANGED <<mqVars, cbVars, rhVars, colVars, guardVars, rcvVars, wkVars,
                       tokVars, fabVars, bcVars, rtVars, wtVars, sesVars, gcVars,
                       ackVars>>

RegRegisterStep == (\E t \in Tasks, saved \in BOOLEAN : RegisterTask(t, saved)) /\ RegOnly
RegClaimGetLockStep == (\E a \in Callers, t \in Tasks : ClaimGetLock(a, t)) /\ RegOnly
RegClaimAcquireStep == (\E a \in Callers : ClaimAcquire(a)) /\ RegOnly
RegClaimBodyStep == (\E a \in Callers, updated \in BOOLEAN : ClaimBody(a, updated)) /\ RegOnly

NextRegistry ==
    \/ RegRegisterStep
    \/ RegClaimGetLockStep
    \/ RegClaimAcquireStep
    \/ RegClaimBodyStep

InitRegistry ==
    /\ RegInit
    /\ MQInit
    /\ CBInit
    /\ RHIdle
    /\ ColIdle
    /\ GuardIdle
    /\ RtIdle
    /\ FabIdle
    /\ BcIdle
    /\ RcvIdle
    /\ WkIdle
    /\ TokIdle
    /\ WtIdle
    /\ SesIdle
    /\ GcIdle
    /\ AckIdle

SpecRegistry == InitRegistry /\ [][NextRegistry]_vars

\* The registry with every operation of a task's life, followed on one task
\* with one claiming agent and one caller of retry_failed_task.
LifeTasks == {"task1"}
LifeCallers == {"agent_head"}
LifeRetriers == {"r1"}

LifeRegisterStep == (\E t \in LifeTasks, saved \in BOOLEAN : RegisterTask(t, saved)) /\ RegOnly
LifeClaimGetLockStep ==
    (\E a \in LifeCallers, t \in LifeTasks : ClaimGetLock(a, t)) /\ RegOnly
LifeClaimAcquireStep == (\E a \in LifeCallers : ClaimAcquire(a)) /\ RegOnly
LifeClaimBodyStep ==
    (\E a \in LifeCallers, updated \in BOOLEAN : ClaimBody(a, updated)) /\ RegOnly
LifeUpdateStep ==
    (\E t \in LifeTasks, status \in Statuses, error \in {None, "error"}, updated \in BOOLEAN :
        UpdateStatus(t, status, error, updated)) /\ RegOnly
LifeCancelStep == (\E t \in LifeTasks, updated \in BOOLEAN : CancelTask(t, updated)) /\ RegOnly
LifeRetryCheckStep == (\E r \in LifeRetriers, t \in LifeTasks : RetryCheck(r, t)) /\ RegOnly
LifeRetryResetStep == (\E r \in LifeRetriers : RetryReset(r)) /\ RegOnly
LifeRetryStoreStep ==
    (\E r \in LifeRetriers, updated \in BOOLEAN : RetryStore(r, updated)) /\ RegOnly

NextLifecycle ==
    \/ LifeRegisterStep
    \/ LifeClaimGetLockStep
    \/ LifeClaimAcquireStep
    \/ LifeClaimBodyStep
    \/ LifeUpdateStep
    \/ LifeCancelStep
    \/ LifeRetryCheckStep
    \/ LifeRetryResetStep
    \/ LifeRetryStoreStep

SpecLifecycle == InitRegistry /\ [][NextLifecycle]_vars

\* Concurrent retry_failed_task calls on one task that fails again and again.
RaceFailStep ==
    (\E t \in LifeTasks, updated \in BOOLEAN : UpdateStatus(t, "failed", "error", updated))
    /\ RegOnly
RaceRetryCheckStep == (\E r \in Retriers, t \in LifeTasks : RetryCheck(r, t)) /\ RegOnly
RaceRetryResetStep == (\E r \in Retriers : RetryReset(r)) /\ RegOnly
RaceRetryStoreStep == (\E r \in Retriers, updated \in BOOLEAN : RetryStore(r, updated)) /\ RegOnly

NextRetryRace ==
    \/ LifeRegisterStep
    \/ RaceFailStep
    \/ RaceRetryCheckStep
    \/ RaceRetryResetStep
    \/ RaceRetryStoreStep

SpecRetryRace == InitRegistry /\ [][NextRetryRace]_vars

GuardOnly == UNCHANGED <<mqVars, regVars, colVars, rcvVars, wkVars, tokVars, fabVars,
                         bcVars, rtVars, wtVars, sesVars, gcVars, ackVars>>

GuardEnterStep == (\E func_name \in FuncNames : GuardEnter(func_name)) /\ GuardOnly
GuardCallReturnsStep ==
    guard_pc = "retrying" /\ RetryCallReturns /\ UNCHANGED <<cbVars, guardVars>> /\ GuardOnly
GuardCallRaisesStep ==
    /\ guard_pc = "retrying"
    /\ \E text \in GuardErrorTexts : RetryCallRaises(text)
    /\ UNCHANGED <<cbVars, guardVars>>
    /\ GuardOnly
GuardLeaveStep == GuardLeave /\ GuardOnly
\* Between the leader's calls the cool-down may elapse.
GuardTickStep == CbAdvance(CbTimeout) /\ UNCHANGED <<rhVars, guardVars>> /\ GuardOnly
AggregateStep == (\E kind \in ResponseKinds : AggregateResults(kind)) /\ GuardOnly

NextGuard ==
    \/ GuardEnterStep
    \/ GuardCallReturnsStep
    \/ GuardCallRaisesStep
    \/ GuardLeaveStep
    \/ GuardTickStep
    \/ AggregateStep

InitGuard ==
    /\ GuardIdle
    /\ CBInit
    /\ RHIdle
    /\ MQInit
    /\ RegIdle
    /\ ColIdle
    /\ RcvIdle
    /\ BcIdle
    /\ RtIdle
    /\ FabIdle
    /\ WkIdle
    /\ TokIdle
    /\ WtIdle
    /\ SesIdle
    /\ GcIdle
    /\ AckIdle

SpecGuard == InitGuard /\ [][NextGuard]_vars

RcvOnly == UNCHANGED <<mqVars, cbVars, rhVars, regVars, colVars, guardVars, wkVars,
                       tokVars, fabVars, bcVars, rtVars, wtVars, sesVars, gcVars,
                       ackVars>>

RcvDeliverStep == (\E msg \in RcvEnvelopes : RcvDeliver(msg)) /\ RcvOnly
RcvReceiveStep == (\E auto_ack \in BOOLEAN : ReceiverReceive(auto_ack)) /\ RcvOnly

NextReceiver == RcvDeliverStep \/ RcvReceiveStep

InitReceiver ==
    /\ RcvInit
    /\ MQInit
    /\ CBInit
    /\ RHIdle
    /\ RegIdle
    /\ ColIdle
    /\ FabIdle
    /\ RtIdle
    /\ BcIdle
    /\ GuardIdle
    /\ WkIdle
    /\ TokIdle
    /\ WtIdle
    /\ SesIdle
    /\ GcIdle
    /\ AckIdle

SpecReceiver == InitReceiver /\ [][NextReceiver]_vars

WkOnly == UNCHANGED <<mqVars, cbVars, rhVars, regVars, colVars, guardVars, rcvVars,
                      tokVars, fabVars, bcVars, rtVars, wtVars, sesVars, gcVars, ackVars>>

WkTaskArrivesStep == WorkerTaskArrives /\ WkOnly
WkLoopHeadStep == RunLoopHead /\ WkOnly
WkPollReturnsStep == RunLoopPollReturns /\ WkOnly
WkHandleStep == HandleTaskStep /\ WkOnly
WkStopStep == WorkerStop /\ WkOnly

NextWorker ==
    \/ WkTaskArrivesStep
    \/ WkLoopHeadStep
    \/ WkPollReturnsStep
    \/ WkHandleStep
    \/ WkStopStep

InitWorker ==
    /\ WkInit
    /\ MQInit
    /\ CBInit
    /\ RHIdle
    /\ RegIdle
    /\ ColIdle
    /\ GuardIdle
    /\ BcIdle
    /\ RtIdle
    /\ FabIdle
    /\ RcvIdle
    /\ TokIdle
    /\ WtIdle
    /\ SesIdle
    /\ GcIdle
    /\ AckIdle

SpecWorker == InitWorker /\ [][NextWorker]_vars

TokOnly == UNCHANGED <<mqVars, cbVars, rhVars, regVars, colVars, guardVars, rcvVars,
                       wkVars, fabVars, bcVars, rtVars, wtVars, sesVars, gcVars, ackVars>>

TokCreateStep == TokCreate /\ TokOnly

NextToken == TokCreateStep

InitToken ==
    /\ TokInit
    /\ MQInit
    /\ CBInit
    /\ RHIdle
    /\ RegIdle
    /\ ColIdle
    /\ GuardIdle
    /\ BcIdle
    /\ RtIdle
    /\ RcvIdle
    /\ FabIdle
    /\ WkIdle
    /\ WtIdle
    /\ SesIdle
    /\ GcIdle
    /\ AckIdle

SpecToken == InitToken /\ [][NextToken]_vars

FabOnly == UNCHANGED <<cbVars, rhVars, regVars, colVars, guardVars, rcvVars, wkVars,
                       tokVars, bcVars, rtVars, wtVars, sesVars, gcVars, ackVars>>

CntShouldRetryStep == (\E i \in MsgIds : ShouldRetryCall(i)) /\ UNCHANGED mqVars /\ FabOnly
CntIncrementStep == (\E i \in MsgIds : IncrementRetry(i)) /\ UNCHANGED mqVars /\ FabOnly
CntResetStep == (\E i \in MsgIds : ResetRetry(i)) /\ UNCHANGED mqVars /\ FabOnly
\* The worker "head" dead-letters the TASK it failed on.
CntToDlqStep ==
    /\ ToDlq("head", [message_id |-> "m1", method |-> "TASK"], "Test error")
    /\ UNCHANGED mqVars
    /\ FabOnly

NextMsgRetry == CntShouldRetryStep \/ CntIncrementStep \/ CntResetStep \/ CntToDlqStep

InitMsgRetry ==
    /\ FabInit
    /\ MQInit
    /\ CBInit
    /\ RHIdle
    /\ RegIdle
    /\ ColIdle
    /\ RtIdle
    /\ GuardIdle
    /\ BcIdle
    /\ RcvIdle
    /\ WkIdle
    /\ TokIdle
    /\ WtIdle
    /\ SesIdle
    /\ GcIdle
    /\ AckIdle

SpecMsgRetry == InitMsgRetry /\ [][NextMsgRetry]_vars

\* The fabric with one sender: TASK envelopes are sent to "head" and received,
\* an agent dead-letters the envelope m1, the lists are cleared, m1 is retried.
TaskEnvelopes == {m \in Envelopes : m.method = "TASK"}

DlqSendStep ==
    /\ \E m \in TaskEnvelopes : SendLocked("t1", "head", m)
    /\ UNCHANGED fabVars
    /\ FabOnly
DlqPutStep == SendPut("t1") /\ UNCHANGED fabVars /\ FabOnly
DlqReceiveStep == Receive("head") /\ UNCHANGED fabVars /\ FabOnly
DlqToDlqStep ==
    /\ \E a \in Recipients : ToDlq(a, [message_id |-> "m1", method |-> "TASK"], "Test error")
    /\ UNCHANGED mqVars
    /\ FabOnly
DlqClearStep == (\E a \in Recipients \cup {None} : ClearDlq(a)) /\ UNCHANGED mqVars /\ FabOnly
DlqIncrementStep == IncrementRetry("m1") /\ UNCHANGED mqVars /\ FabOnly

NextDlq ==
    \/ DlqSendStep
    \/ DlqPutStep
    \/ DlqReceiveStep
    \/ DlqToDlqStep
    \/ DlqClearStep
    \/ DlqIncrementStep

InitDlq ==
    /\ FabIdle
    /\ MQInit
    /\ CBInit
    /\ RHIdle
    /\ RegIdle
    /\ ColIdle
    /\ GuardIdle
    /\ BcIdle
    /\ RtIdle
    /\ RcvIdle
    /\ WkIdle
    /\ TokIdle
    /\ WtIdle
    /\ SesIdle
    /\ GcIdle
    /\ AckIdle

SpecDlq == InitDlq /\ [][NextDlq]_vars

BcOnly == UNCHANGED <<cbVars, rhVars, regVars, colVars, guardVars, rcvVars, wkVars,
                      tokVars, fabVars, rtVars, wtVars, sesVars, gcVars, ackVars>>

BcBeginStep ==
    /\ \E ids \in BroadcastLists, m \in TaskEnvelopes : BroadcastBegin(ids, m)
    /\ UNCHANGED mqVars
    /\ BcOnly
BcSendStep == BroadcastSend /\ BcOnly
BcReturnStep == BroadcastReturn /\ UNCHANGED mqVars /\ BcOnly
BcPlainSendStep ==
    (\E t \in Threads, a \in Recipients, m \in TaskEnvelopes : PlainSend(t, a, m)) /\ BcOnly
BcPutStep == (\E t \in Threads : LoggedPut(t)) /\ BcOnly
BcReceiveStep == (\E a \in Recipients : LoggedReceive(a)) /\ BcOnly

NextBroadcast ==
    \/ BcBeginStep
    \/ BcSendStep
    \/ BcReturnStep
    \/ BcPlainSendStep
    \/ BcPutStep
    \/ BcReceiveStep

InitBroadcast ==
    /\ BcIdle
    /\ MQInit
    /\ CBInit
    /\ RHIdle
    /\ RegIdle
    /\ ColIdle
    /\ GuardIdle
    /\ RtIdle
    /\ RcvIdle
    /\ WkIdle
    /\ TokIdle
    /\ FabIdle
    /\ WtIdle
    /\ SesIdle
    /\ GcIdle
    /\ AckIdle

SpecBroadcast == InitBroadcast /\ [][NextBroadcast]_vars

RtOnly == UNCHANGED <<cbVars, rhVars, regVars, colVars, guardVars, rcvVars, wkVars,
                      tokVars, fabVars, bcVars, wtVars, sesVars, gcVars, ackVars>>

RtToDictStep == RtToDict /\ UNCHANGED mqVars /\ RtOnly
RtFromDictStep == RtFromDict /\ UNCHANGED mqVars /\ RtOnly
RtSendOriginalStep == RtSend("original") /\ RtOnly
RtSendRestoredStep == RtSend("restored") /\ RtOnly
RtPutStep == SendPut("t1") /\ UNCHANGED rtVars /\ RtOnly

NextRoundTrip ==
    \/ RtToDictStep
    \/ RtFromDictStep
    \/ RtSendOriginalStep
    \/ RtSendRestoredStep
    \/ RtPutStep

InitRoundTrip ==
    /\ RtInit
    /\ MQInit
    /\ CBInit
    /\ RHIdle
    /\ RegIdle
    /\ ColIdle
    /\ GuardIdle
    /\ RcvIdle
    /\ WkIdle
    /\ TokIdle
    /\ FabIdle
    /\ BcIdle
    /\ WtIdle
    /\ SesIdle
    /\ GcIdle
    /\ AckIdle

SpecRoundTrip == InitRoundTrip /\ [][NextRoundTrip]_vars

WtOnly == UNCHANGED <<mqVars, cbVars, rhVars, regVars, colVars, guardVars, wkVars,
                      tokVars, fabVars, bcVars, rtVars, sesVars, gcVars, ackVars>>

WtDeliverStep == (\E msg \in RcvEnvelopes : WtDeliver(msg)) /\ WtOnly
WtWaitForTaskStep == WaitForTask /\ WtOnly

NextWaitForTask ==
    \/ WtDeliverStep
    \/ WtWaitForTaskStep

InitWaitForTask ==
    /\ RcvInit
    /\ WtIdle
    /\ MQInit
    /\ CBInit
    /\ RHIdle
    /\ RegIdle
    /\ ColIdle
    /\ GuardIdle
    /\ WkIdle
    /\ TokIdle
    /\ FabIdle
    /\ BcIdle
    /\ RtIdle
    /\ SesIdle
    /\ GcIdle
    /\ AckIdle

SpecWaitForTask == InitWaitForTask /\ [][NextWaitForTask]_vars

SesOnly == UNCHANGED <<mqVars, cbVars, rhVars, regVars, guardVars, rcvVars, wkVars,
                       tokVars, fabVars, bcVars, rtVars, wtVars, gcVars, ackVars>>

SesDispatchStep == DispatchTask /\ SesOnly
SesWorkerStep ==
    /\ \E w \in Workers, outcome \in {"success", "failed"} :
          ses_tasks[w] > 0 /\ WorkerHandlesTask(w, outcome)
    /\ UNCHANGED sesVars
    /\ SesOnly
SesIterationStep ==
    ses_to_dispatch = <<>> /\ CollectIteration /\ UNCHANGED sesVars /\ SesOnly
SesReceiveStep == CollectReceive /\ UNCHANGED sesVars /\ SesOnly
SesReturnStep == ses_to_dispatch = <<>> /\ SessionCollectReturn /\ SesOnly
SesProgressHandlerStep ==
    ses_to_dispatch = <<>> /\ ProgressHandler /\ UNCHANGED sesVars /\ SesOnly
SesDeadlineStep == ses_to_dispatch = <<>> /\ DeadlineElapses /\ UNCHANGED sesVars /\ SesOnly

NextSession ==
    \/ SesDispatchStep
    \/ SesWorkerStep
    \/ SesIterationStep
    \/ SesReceiveStep
    \/ SesReturnStep
    \/ SesProgressHandlerStep
    \/ SesDeadlineStep

InitSession ==
    /\ SesInit
    /\ MQInit
    /\ CBInit
    /\ RHIdle
    /\ RegIdle
    /\ GuardIdle
    /\ RcvIdle
    /\ WkIdle
    /\ TokIdle
    /\ FabIdle
    /\ BcIdle
    /\ RtIdle
    /\ WtIdle
    /\ GcIdle
    /\ AckIdle

SpecSession == InitSession /\ [][NextSession]_vars

GcOnly == UNCHANGED <<mqVars, regVars, colVars, rcvVars, wkVars, tokVars, fabVars,
                      bcVars, rtVars, wtVars, sesVars, ackVars>>

GcEnterStep ==
    (\E func_name \in FuncNames : GuardEnter(func_name)) /\ UNCHANGED gcVars /\ GcOnly
GcCallReturnsStep ==
    /\ guard_pc = "retrying"
    /\ RetryCallReturns
    /\ UNCHANGED <<cbVars, guardVars, gcVars>>
    /\ GcOnly
GcCallRaisesStep ==
    /\ guard_pc = "retrying"
    /\ \E text \in GuardErrorTexts : RetryCallRaises(text)
    /\ UNCHANGED <<cbVars, guardVars, gcVars>>
    /\ GcOnly
GcEndsStep == GuardedCallEnds /\ GcOnly
GcTickStep == CbAdvance(CbTimeout) /\ UNCHANGED <<rhVars, guardVars, gcVars>> /\ GcOnly

NextGuardedCalls ==
    \/ GcEnterStep
    \/ GcCallReturnsStep
    \/ GcCallRaisesStep
    \/ GcEndsStep
    \/ GcTickStep

InitGuardedCalls ==
    /\ GuardIdle
    /\ GcIdle
    /\ CBInit
    /\ RHIdle
    /\ MQInit
    /\ RegIdle
    /\ ColIdle
    /\ RcvIdle
    /\ WkIdle
    /\ TokIdle
    /\ FabIdle
    /\ BcIdle
    /\ RtIdle
    /\ WtIdle
    /\ SesIdle
    /\ AckIdle

SpecGuardedCalls == InitGuardedCalls /\ [][NextGuardedCalls]_vars

AckOnly == UNCHANGED <<mqVars, cbVars, rhVars, regVars, colVars, guardVars, rcvVars,
                       wkVars, tokVars, fabVars, bcVars, rtVars, wtVars, sesVars, gcVars>>

AckProduceStep ==
    (\E a \in RcvSenders, msg \in RcvEnvelopes : AckProduce(a, msg)) /\ AckOnly
AckPollLeaderStep == (\E auto_ack \in BOOLEAN : AckPoll("leader", auto_ack)) /\ AckOnly
AckPollWorkerStep == (\E auto_ack \in BOOLEAN : AckPoll("agent_top", auto_ack)) /\ AckOnly

NextAck ==
    \/ AckProduceStep
    \/ AckPollLeaderStep
    \/ AckPollWorkerStep

InitAck ==
    /\ AckInit
    /\ MQInit
    /\ CBInit
    /\ RHIdle
    /\ RegIdle
    /\ ColIdle
    /\ GuardIdle
    /\ RcvIdle
    /\ WkIdle
    /\ TokIdle
    /\ FabIdle
    /\ BcIdle
    /\ RtIdle
    /\ WtIdle
    /\ SesIdle
    /\ GcIdle

SpecAck == InitAck /\ [][NextAck]_vars

\* sub_agent.py:89-97, leader_agent.py:570-587: every agent's loop keeps
\* polling its mailbox
SpecAckFair ==
    /\ SpecAck
    /\ WF_vars(AckPollLeaderStep)
    /\ WF_vars(AckPollWorkerStep)

ColOnly == UNCHANGED <<mqVars, cbVars, rhVars, regVars, guardVars, rcvVars, wkVars,
                       tokVars, fabVars, bcVars, rtVars, wtVars, sesVars, gcVars,
                       ackVars>>

ColWorkerStep ==
    (\E w \in Workers, outcome \in {"success", "failed"} : WorkerHandlesTask(w, outcome)) /\ ColOnly
ColIterationStep == CollectIteration /\ ColOnly
ColReceiveStep == CollectReceive /\ ColOnly
ColReturnStep == CollectReturn /\ ColOnly
ColProgressHandlerStep == ProgressHandler /\ ColOnly
ColDeadlineStep == DeadlineElapses /\ ColOnly

NextCollect ==
    \/ ColWorkerStep
    \/ ColIterationStep
    \/ ColReceiveStep
    \/ ColReturnStep
    \/ ColProgressHandlerStep
    \/ ColDeadlineStep

InitCollect ==
    /\ ColInit
    /\ MQInit
    /\ CBInit
    /\ RHIdle
    /\ RegIdle
    /\ GuardIdle
    /\ RtIdle
    /\ FabIdle
    /\ BcIdle
    /\ RcvIdle
    /\ WkIdle
    /\ TokIdle
    /\ WtIdle
    /\ SesIdle
    /\ GcIdle
    /\ AckIdle

SpecCollect == InitCollect /\ [][NextCollect]_vars

\* The leader's thread keeps running: each step of _collect_results that can
\* be taken is taken.
SpecCollectFair ==
    /\ SpecCollect
    /\ WF_vars(ColIterationStep)
    /\ WF_vars(ColReceiveStep)
    /\ WF_vars(ColReturnStep)

-----------------------------------------------------------------------------
(* C1: MessageQueue.send is idempotent per recipient: under every          *)
(* interleaving of concurrent sends, a message id is returned by           *)
(* receive(recipient) at most once; a later send of an id the recipient    *)
(* has already accepted is dropped, so every send call beyond the first    *)
(* for that (recipient, id) counts as dropped and never reaches the queue. *)
InQueue(a, i) == Cardinality({k \in 1..Len(mq_queues[a]) : mq_queues[a][k].message_id = i})

InFlight(a, i) == Cardinality({t \in Threads : th_pc[t] = "put" /\ th_arg[t][1] = a
                                               /\ th_arg[t][2].message_id = i})

C1_SendIdempotent ==
    /\ \A a \in Recipients, i \in MsgIds :
          /\ mq_delivered[a][i] + InQueue(a, i) + InFlight(a, i) <= 1
          /\ mq_sent[a][i] >= 1 =>
                mq_delivered[a][i] + InQueue(a, i) + InFlight(a, i) = 1
    /\ mq_dropped =
          SumOver([p \in Recipients \X MsgIds |->
                      IF mq_sent[p[1]][p[2]] = 0 THEN 0 ELSE mq_sent[p[1]][p[2]] - 1],
                  Recipients \X MsgIds)

\* Two sends of one id to one recipient, one message delivered, and the next
\* receive returned no message.
C1_Witness ==
    \E a \in Recipients, i \in MsgIds :
        /\ mq_sent[a][i] >= 2
        /\ mq_delivered[a][i] = 1
        /\ mq_last_recv[a] = "none"
        /\ mq_dropped >= 1

(* C2: single claim. For a task created by register_task and still Pending, *)
(* of the concurrent claim_task calls made on it exactly one returns True   *)
(* and the task is InProgress with that caller as assignee; the other calls *)
(* return False.                                                            *)
ClaimsOn(t) == {a \in Callers : reg_task[a] = t /\ reg_after_register[a]}

C2_SingleClaim ==
    \A t \in reg_registered :
        (ClaimsOn(t) # {} /\ \A a \in ClaimsOn(t) : reg_pc[a] = "done") =>
            \E w \in ClaimsOn(t) :
                /\ reg_result[w] = "True"
                /\ \A a \in ClaimsOn(t) \ {w} : reg_result[a] = "False"
                /\ reg_cache[t].status = "in_progress"
                /\ reg_cache[t].assignee_agent_id = w

-----------------------------------------------------------------------------
\* The replies the workers had sent when _collect_results returned
RepliedAtReturn(outcome) == {w \in Workers : col_at_return.worker[w] = outcome}

(* C3: fan-in with partial failure. When _collect_results returns after    *)
(* three workers replied RESULT success and one replied RESULT failed, and  *)
(* the leader's mailbox has been read empty, the result map has exactly 3   *)
(* entries, exactly one dead-letter entry exists, and no sender is missing. *)
C3_FanInPartialFailure ==
    (/\ col_pc = "returned"
     /\ col_at_return.drained
     /\ Cardinality(RepliedAtReturn("success")) = Cardinality(Workers) - 1
     /\ Cardinality(RepliedAtReturn("failed")) = 1)
    => (/\ Cardinality(col_results) = Cardinality(Workers) - 1
        /\ DlqTotal = 1
        /\ col_missing = {})

(* C4: timeout with a silent worker. When three workers replied RESULT      *)
(* success and one never replied, _collect_results returns only once the    *)
(* deadline has elapsed, and, the leader's mailbox having been read empty,  *)
(* with a result map of exactly 3 entries and a missing set that holds      *)
(* exactly the silent worker.                                               *)
C4_TimeoutSilentWorker ==
    (/\ col_pc = "returned"
     /\ col_at_return.drained
     /\ Cardinality(RepliedAtReturn("success")) = Cardinality(Workers) - 1
     /\ Cardinality(RepliedAtReturn("waiting")) = 1)
    => (/\ col_expired
        /\ Cardinality(col_results) = Cardinality(Workers) - 1
        /\ col_missing = RepliedAtReturn("waiting"))

-----------------------------------------------------------------------------
(* C5: retry bound. An invocation of execute_with_retry that starts with   *)
(* an attempt counter of 0 for its key and whose function fails with a     *)
(* retryable error on every call makes exactly max_retries + 1 calls and   *)
(* then raises.                                                            *)
C5_RetryBound ==
    (rh_invocations > 0 /\ rh_start_attempts = 0 /\ rh_only_retryable) =>
        /\ rh_calls <= rh_max_retries + 1
        /\ rh_pc = "done" <=> rh_calls = rh_max_retries + 1
        /\ rh_pc = "done" => rh_outcome = "raised"

\* The spec's case: max_retries = 3, four calls, then the raise.
C5_Witness ==
    /\ rh_pc = "done"
    /\ rh_start_attempts = 0
    /\ rh_only_retryable
    /\ rh_max_retries = 3
    /\ rh_calls = 4
    /\ rh_outcome = "raised"

(* C6: when the function fails with retryable errors on some calls and     *)
(* then succeeds, execute_with_retry returns the result of that successful *)
(* call and the attempt counter of the key is 0 afterwards.                *)
C6_SuccessResetsCounter ==
    (rh_pc = "done" /\ rh_outcome = "returned") =>
        /\ rh_value = rh_calls
        /\ AttemptsGet(rh_attempts, rh_key) = 0

\* The function succeeded on its 2nd call.
C6_Witness ==
    /\ rh_pc = "done"
    /\ rh_outcome = "returned"
    /\ rh_calls = 2
    /\ Len(rh_sleeps) = 1
    /\ rh_value = 2
    /\ AttemptsGet(rh_attempts, rh_key) = 0

(* C7: backoff growth. Within one execute_with_retry run that starts from  *)
(* attempt counter 0, the k-th sleep (k = 0, 1, 2, ...) is                 *)
(* min(initial_delay * backoff_factor^k, max_delay): 1, 2, 4, ... capped   *)
(* at max_delay.                                                           *)
C7_BackoffGrowth ==
    (rh_invocations > 0 /\ rh_start_attempts = 0) =>
        \A k \in 1..Len(rh_sleeps) :
            rh_sleeps[k] = Min(InitialDelay * Pow(BackoffFactor, k - 1), MaxDelay)

-----------------------------------------------------------------------------
(* C8: after failure_threshold consecutive record_failure() calls with no  *)
(* record_success() in between, can_execute() returns False for as long as *)
(* less than the cool-down has elapsed since the last failure and True for *)
(* every elapsed time at or beyond the cool-down.                          *)
C8_OpensAndRecovers ==
    (/\ cb_last_op = "can_execute"
     /\ cb_failure_count >= FailureThreshold
     /\ cb_last_failure_time # <<>>)
    => (cb_result =
          (ElapsedTotalSeconds(cb_checked_at, cb_last_failure_time[1]) >= CbTimeout))

(* C9: in every reachable breaker state a single record_success() sets the *)
(* failure count to 0, and the can_execute() that follows it returns True. *)
C9_SuccessResets ==
    /\ cb_last_op = "record_success" => (cb_failure_count = 0 /\ cb_state = "closed")
    /\ (cb_last_op = "can_execute" /\ cb_prev_op = "record_success") => cb_result = TRUE

\* record_success() has acted on an open breaker whose count had reached the
\* threshold.
C9_Witness ==
    /\ cb_last_op = "record_success"
    /\ cb_prev_state = "open"
    /\ cb_prev_op = "record_failure"
    /\ cb_failure_count = 0

(* C10, as claimed: the state goes from closed to open only in a            *)
(* record_failure() that brings the count to at least failure_threshold,    *)
(* and from open or half_open to closed only through record_success().     *)
C10_TransitionsOriginal ==
    /\ (cb_prev_state = "closed" /\ cb_state = "open") =>
          (cb_last_op = "record_failure" /\ cb_failure_count >= FailureThreshold)
    /\ (cb_prev_state \in {"open", "half_open"} /\ cb_state = "closed") =>
          cb_last_op = "record_success"

(* C10, amended: the state goes from closed to open only in a               *)
(* record_failure() that brings the count to at least failure_threshold,    *)
(* and from open or half_open to closed only through record_success() or    *)
(* an explicit reset().                                                     *)
C10_Transitions ==
    /\ (cb_prev_state = "closed" /\ cb_state = "open") =>
          (cb_last_op = "record_failure" /\ cb_failure_count >= FailureThreshold)
    /\ (cb_prev_state \in {"open", "half_open"} /\ cb_state = "closed") =>
          cb_last_op \in {"record_success", "reset"}
    /\ (cb_prev_state = "half_open" /\ cb_state = "open") =>
          cb_last_op = "record_failure"

\* The breaker opened, its cool-down elapsed (half_open on a read), and a
\* success report closed it.
C10_Witness ==
    /\ cb_prev_state = "half_open"
    /\ cb_state = "closed"
    /\ cb_last_op = "record_success"
    /\ cb_last_failure_time # <<>>

-----------------------------------------------------------------------------
(* C11: for every task record, cached or stored, in every reachable state   *)
(* of the registry, concurrent retry_failed_task calls on one task          *)
(* included, retry_count <= max_retries.                                    *)
C11_RetryCountBounded ==
    \A t \in Tasks :
        /\ reg_cache[t].retry_count <= reg_cache[t].max_retries
        /\ reg_store[t].retry_count <= reg_store[t].max_retries

(* C12: a task's status becomes in_progress only as the effect of a         *)
(* claim_task call that returns True; register_task, update_status,         *)
(* retry_failed_task and cancel_task never move a task into in_progress.    *)
C12_InProgressOnlyByClaim ==
    [][\A t \in Tasks :
          (reg_cache'[t].status = "in_progress" /\ reg_cache[t].status # "in_progress") =>
              \E a \in Callers : /\ reg_task[a] = t
                                 /\ reg_pc[a] = "locked"
                                 /\ reg_pc'[a] = "done"
                                 /\ reg_result'[a] = "True"]_vars

\* A step in which a registry operation returns or raises
OpCompletes == reg_last_op' # reg_last_op

\* What an operation returns when nothing goes wrong
NormalResult(op) == IF op = "register_task" THEN "task_id" ELSE "True"

(* C16: store write failures never surface from the registry. When the      *)
(* store write of register_task, claim_task, update_status (cancel_task) or *)
(* retry_failed_task raises, the operation still returns its normal result, *)
(* raises nothing, and the cached record carries the operation's effect.    *)
C16_StoreFailureSwallowed ==
    [][(OpCompletes /\ reg_last_op'.write = "raised") =>
          LET op == reg_last_op'.op
              task == reg_cache'[reg_last_op'.task]
          IN  /\ reg_last_op'.result = NormalResult(op)
              /\ task.repr # "absent"
              /\ op = "register_task" => task.status = "pending"
              /\ op = "claim_task" => task.status = "in_progress"
              /\ op = "cancel_task" => task.status = "cancelled"
              /\ op = "retry_failed_task" => task.status = "pending"]_vars

TerminalStatuses == {"completed", "failed", "cancelled"}

(* C17: update_status sets completed_at if and only if the new status is    *)
(* terminal: after every update_status call that returns True, whatever     *)
(* update_status calls came before, completed_at is set exactly when the    *)
(* status just written is completed, failed or cancelled.                   *)
C17_CompletedAtIffTerminal ==
    [][(OpCompletes /\ reg_last_op'.op = "update_status" /\ reg_last_op'.result = "True") =>
          LET task == reg_cache'[reg_last_op'.task]
          IN  task.completed_at <=> task.status \in TerminalStatuses]_vars

\* A step in which a retry_failed_task call of r returns or raises
RetryReturns(r) ==
    /\ reg_retry_pc'[r] = "done"
    /\ reg_retry_pc[r] # "done" \/ reg_retry_result'[r] # reg_retry_result[r]

Eligible(task) ==
    task.repr # "absent" /\ task.status = "failed" /\ task.retry_count < task.max_retries

(* C18: retry_failed_task returns True only if the task is failed with      *)
(* retry_count < max_retries, and then the record is pending, its assignee  *)
(* and error message are cleared and retry_count is one more than before;   *)
(* in every other case it returns False and leaves the record unchanged.    *)
C18_RetryContract ==
    [][\A r \in Retriers :
          LET t == reg_retry_task'[r]
          IN  /\ reg_retry_pc'[r] = "passed" /\ reg_retry_pc[r] # "passed"
                    => Eligible(ClaimLookup(t))
              /\ RetryReturns(r) =>
                    IF reg_retry_pc[r] = "loaded"
                    THEN /\ reg_retry_result'[r] = "True"
                         /\ reg_cache'[t].status = "pending"
                         /\ reg_cache'[t].assignee_agent_id = None
                         /\ reg_cache'[t].error_message = None
                         /\ reg_cache'[t].retry_count = reg_cache[t].retry_count + 1
                    ELSE /\ reg_retry_result'[r] = "False"
                         /\ ~Eligible(ClaimLookup(t))
                         /\ reg_cache' = reg_cache]_vars

(* C19: cancelled is a terminal override. cancel_task moves a pending or    *)
(* in_progress task to cancelled, and once a task is cancelled no later     *)
(* claim_task, update_status or retry_failed_task changes its status.       *)
C19_CancelledTerminal ==
    [][\A t \in Tasks :
          /\ (/\ OpCompletes
               /\ reg_last_op'.op = "cancel_task"
               /\ reg_last_op'.task = t
               /\ ClaimLookup(t).status \in {"pending", "in_progress"})
              => reg_cache'[t].status = "cancelled"
          /\ reg_cache[t].status = "cancelled" => reg_cache'[t].status = "cancelled"]_vars

\* The guarded synthesis call of aggregate_results failed: the breaker
\* refused it, or execute_with_retry raised
SynthesisFailed ==
    /\ guard_func_name = "aggregate_results"
    /\ guard_refused \/ rh_outcome = "raised"

(* C13: aggregate_results never fails the pipeline. When its guarded        *)
(* synthesis call fails (the Completion Service raises until the retries    *)
(* are exhausted, or the breaker is open), aggregate_results still returns  *)
(* a result carrying the per-category results and an empty summary, and     *)
(* raises nothing.                                                          *)
C13_AggregateNeverFails ==
    (agg_outcome # "none" /\ SynthesisFailed) => agg_outcome = "result_empty_summary"

(* C14: the leader's breaker-guarded call never propagates an exception.    *)
(* With the breaker open it returns the fallback without invoking the       *)
(* Completion Service; when execute_with_retry raises it records a breaker  *)
(* failure and returns the fallback.                                        *)
C14_GuardNeverRaises ==
    guard_pc = "done" =>
        /\ guard_outcome = "returned"
        /\ guard_refused =>
              /\ guard_result = GetFallbackResult(guard_func_name)
              /\ rh_invocations = guard_invocations_at_entry
        /\ (~guard_refused /\ rh_outcome = "raised") =>
              /\ guard_result = GetFallbackResult(guard_func_name)
              /\ cb_last_op = "record_failure"
              /\ cb_failure_count > 0

C14_Witness ==
    /\ guard_pc = "done"
    /\ guard_refused
    /\ cb_state = "open"
    /\ rh_outcome = "raised"
    /\ rh_calls = LeaderMaxRetries + 1

(* C15: receive with auto_ack enabled sends exactly one ACK envelope to the *)
(* original sender for each envelope it returns whose method is TASK,       *)
(* RESULT or PROGRESS and no ACK for any other method (ACK included), in    *)
(* the synchronous and in the asynchronous receiver alike.                  *)
C15_AutoAck ==
    (rcv_last_msg # <<>> /\ rcv_auto_ack) =>
        LET msg == rcv_last_msg[1]
        IN  rcv_acks = [rcv_acks_before EXCEPT ![msg.agent_id] =
                            IF msg.method \in AckedMethods THEN @ + 1 ELSE @]

(* C20: collection always terminates. Whatever the workers do (none ever   *)
(* replies, or only ACK and PROGRESS envelopes arrive), once the global     *)
(* deadline has elapsed _collect_results returns, every mailbox receive in  *)
(* it being bounded by a timeout.                                           *)
C20_CollectionTerminates == col_expired ~> (col_pc = "returned")

C20_Witness ==
    /\ col_pc = "returned"
    /\ col_expired
    /\ col_received = {}
    /\ \A w \in Workers : col_worker[w] = "waiting"

(* C21: worker cancellation. Once stop() has been called on a worker, the   *)
(* worker begins handling no further TASK envelope, and a task whose        *)
(* handling had begun before stop() is carried through.                     *)
C21_WorkerCancellation == ~wk_begun_after_stop /\ ~wk_interrupted

(* C22: default retry partition. With the default RetryConfig an error      *)
(* classified timeout, network, tool_failed or llm_failed is retried while  *)
(* the key's attempts are below max_retries; an error classified validation *)
(* or unknown is never retried: the call that raised it is the last one,    *)
(* and when it is the first call the function has been called exactly once  *)
(* and execute_with_retry raises.                                           *)
ClaimedRetryable == {"timeout", "network", "tool_failed", "llm_failed"}

RetriedStep ==
    /\ rh_pc' = "call"
    /\ rh_outcome' = "none"
    /\ Len(rh_sleeps') = Len(rh_sleeps) + 1
    /\ AttemptsGet(rh_attempts', rh_key) = AttemptsGet(rh_attempts, rh_key) + 1

GivesUpStep ==
    /\ rh_pc' = "done"
    /\ rh_outcome' = "raised"
    /\ rh_sleeps' = rh_sleeps
    /\ rh_calls = 0 => (rh_calls' = 1 /\ rh_value' = 1)

C22_DefaultRetryPartition ==
    [][\A text \in ErrorTexts :
          (rh_retry_on = DefaultRetryOn /\ RetryCallRaises(text)) =>
              IF Classify(text) \in ClaimedRetryable
              THEN AttemptsGet(rh_attempts, rh_key) < rh_max_retries => RetriedStep
              ELSE GivesUpStep]_vars

\* The default configuration with retries left: the first call raised an
\* error that is not on the list, and execute_with_retry raised after it.
C22_Witness ==
    /\ rh_retry_on = DefaultRetryOn
    /\ rh_max_retries = 3
    /\ rh_start_attempts = 0
    /\ rh_pc = "done"
    /\ rh_outcome = "raised"
    /\ rh_calls = 1
    /\ ~rh_only_retryable

(* C23: when execute_with_retry gives up, the error it raises is the one    *)
(* thrown by the last call of the function, whatever the earlier calls      *)
(* threw.                                                                   *)
C23_RaisesLastError == (rh_pc = "done" /\ rh_outcome = "raised") => rh_value = rh_calls

(* C24: token budget. For a given max_tokens and a context that is not     *)
(* empty, create_compact_instruction leaves the Context section out        *)
(* whenever max_tokens minus the length of the assembled sections minus    *)
(* the reserve of 50 is at most 100 (so for every max_tokens below the      *)
(* length of those sections, 0 included); otherwise it appends the context  *)
(* cut to that remaining number of characters. The earlier sections are     *)
(* returned whole.                                                          *)
C24_TokenBudget ==
    (tok_out # <<>> /\ tok_max_tokens # <<>> /\ tok_context > 0) =>
        LET parts == AssembleSections(tok_profile)
            remaining == tok_max_tokens[1] - SumLen(parts) - 50
        IN tok_out[1] =
              IF remaining <= 100
              THEN parts
              ELSE Append(parts,
                          Section("Context",
                                  9 + (IF tok_context <= remaining
                                       THEN tok_context ELSE remaining)))

(* C25: per-message retry counters of the MessageQueue. After k            *)
(* increment_retry calls for a message id since its last reset_retry (or   *)
(* since creation) should_retry(id) is True iff k < max_retries;           *)
(* increment_retry returns the new count k; after reset_retry the count is  *)
(* k = 0 again; an operation on one id leaves the counters of the other    *)
(* ids and the dead-letter lists as they were.                              *)
CountersAgree ==
    \A i \in MsgIds : MqShouldRetry(mq_retry_count, i) <=> (mq_incs[i] < mq_max_retries)

C25_MessageRetryCounters ==
    [][LET op == mq_last_op'
       IN /\ CountersAgree'
          /\ op.op = "should_retry" => op.ret_bool = (mq_incs[op.id] < mq_max_retries)
          /\ op.op = "increment_retry" => op.ret_count = mq_incs[op.id] + 1
          /\ op.op = "reset_retry" => mq_incs'[op.id] = 0
          /\ op.op \in {"should_retry", "increment_retry", "reset_retry"} =>
                /\ mq_dlq' = mq_dlq
                /\ \A i \in MsgIds \ {op.id} : mq_retry_count'[i] = mq_retry_count[i]]_vars

\* The test's case: three increments with max_retries = 3, should_retry is
\* False; the other id has its own count.
C25_Witness ==
    /\ mq_max_retries = 3
    /\ mq_last_op.op = "should_retry"
    /\ mq_last_op.id = "m1"
    /\ ~mq_last_op.ret_bool
    /\ mq_incs["m1"] = 3
    /\ mq_incs["m2"] = 1
    /\ mq_dlq["head"] # <<>>

(* C26: the dead-letter sink is append-only. to_dlq(agent, envelope, error) *)
(* appends exactly one entry {envelope snapshot, error text, timestamp,     *)
(* current retry count of that message id} to that agent's list; over any   *)
(* sequence of fabric operations no existing entry is removed, changed or   *)
(* reordered, and a dead-lettered envelope is never re-enqueued into any     *)
(* mailbox.                                                                  *)
IsPrefix(s, t) == Len(s) <= Len(t) /\ SubSeq(t, 1, Len(s)) = s

ToDlqAppendsOne ==
    LET op == mq_last_op'
    IN (op.op = "to_dlq" /\ mq_dlq_ops' = mq_dlq_ops + 1) =>
          /\ mq_dlq' = [mq_dlq EXCEPT ![op.agent] =
                           Append(@, [message |-> ToDict(op.msg[1]),
                                      error |-> op.error,
                                      timestamp |-> IsoFormat(Now(mq_now')),
                                      retry_count |-> mq_retry_count[op.id]])]
          /\ mq_queues' = mq_queues

\* A mailbox grows only by the put of a send.
NoReplay ==
    \A a \in Recipients :
        Len(mq_queues'[a]) > Len(mq_queues[a]) =>
            \E t \in Threads : th_pc[t] = "put" /\ th_pc'[t] = "idle" /\ th_arg[t][1] = a

EntriesKept == \A a \in Recipients : IsPrefix(mq_dlq[a], mq_dlq'[a])

C26_DlqAppendOnly == [][ToDlqAppendsOne /\ NoReplay /\ EntriesKept]_vars

(* C27: broadcast(recipients, envelope) evaluates deduplication separately *)
(* per recipient: every listed recipient that has not yet been sent the    *)
(* envelope's message_id gets exactly one copy enqueued, every recipient    *)
(* that has (or that appears a second time in the list) gets none, and one  *)
(* recipient's outcome never affects another's.                             *)
BroadcastDone == bc_msg # <<>> /\ ~bc_running

C27_BroadcastPerRecipient ==
    /\ \A k \in 1..Len(bc_turns) :
          /\ bc_turns[k].put <=> ~bc_turns[k].seen
          /\ (\E j \in 1..(k - 1) : bc_turns[j].agent = bc_turns[k].agent) => ~bc_turns[k].put
    /\ BroadcastDone =>
          bc_puts = Cardinality({k \in 1..Len(bc_turns) : ~bc_turns[k].seen})

\* broadcast(["head", "top", "head"], m): one copy each for head and top, none
\* for the second "head".
C27_Witness ==
    /\ BroadcastDone
    /\ Len(bc_turns) = 3
    /\ bc_turns[1].put /\ bc_turns[2].put /\ ~bc_turns[3].put
    /\ bc_puts = 2
    /\ Len(mq_queues["head"]) = 1
    /\ Len(mq_queues["top"]) = 1

(* C30: mailbox FIFO. For every recipient, receive returns envelopes in the *)
(* order in which they were enqueued, each at most once; two envelopes sent *)
(* one after the other by the same sender to the same recipient are         *)
(* enqueued, and so received, in that order under any interleaving with     *)
(* other senders.                                                           *)
RECURSIVE Filter(_, _, _)
Filter(s, idx, v) ==
    IF s = <<>> THEN <<>>
    ELSE (IF Head(s)[idx] = v THEN <<Head(s)>> ELSE <<>>) \o Filter(Tail(s), idx, v)

RECURSIVE Column(_, _)
Column(s, idx) == IF s = <<>> THEN <<>> ELSE <<Head(s)[idx]>> \o Column(Tail(s), idx)

C30_MailboxFifo ==
    /\ \A a \in Recipients : Column(mq_enq_log[a], 2) = mq_recv_log[a] \o mq_queues[a]
    /\ \A a \in Recipients, t \in Threads :
          IsPrefix(Column(Filter(mq_enq_log[a], 1, t), 2), Column(Filter(th_log[t], 1, a), 2))

\* "t2" sent m1 and then m2 to "head" while "t1" sent to "top"; head received
\* m1, then m2.
C30_Witness ==
    /\ Len(th_log["t2"]) = 2
    /\ th_log["t2"][1][1] = "head" /\ th_log["t2"][2][1] = "head"
    /\ th_log["t2"][1][2].message_id = "m1" /\ th_log["t2"][2][2].message_id = "m2"
    /\ Len(th_log["t1"]) = 1
    /\ mq_recv_log["head"] = Column(th_log["t2"], 2)

(* C28: envelope serialization round trip. For every AHPMessage m,         *)
(* AHPMessage.from_dict(m.to_dict()) equals m in every field (method,       *)
(* agent_id, target_agent, task_id, session_id, payload, token_limit,       *)
(* timestamp, message_id), so a round-tripped envelope is still recognised  *)
(* as a duplicate of the original by send.                                  *)
C28_RoundTrip ==
    /\ rt_restored # <<>> => rt_restored[1] = rt_msg
    /\ rt_sends # <<>> =>
          /\ mq_dropped = Len(rt_sends) - 1
          /\ Len(mq_queues["head"]) = IF th_pc["t1"] = "put" THEN 0 ELSE 1

\* An aware timestamp with microseconds; the original and the restored
\* envelope were both sent to "head", one was enqueued and one dropped.
C28_Witness ==
    /\ rt_restored # <<>>
    /\ rt_msg.timestamp.us # 0
    /\ rt_msg.timestamp.tz = <<330>>
    /\ rt_sends = <<"original", "restored">>
    /\ mq_dropped = 1
    /\ Len(mq_queues["head"]) = 1

-----------------------------------------------------------------------------
\* sub_agent.py:138-158 every worker has sent its RESULT (success or failed);
\* send has put it into the leader's mailbox (ahp.py:166)
AllRepliesDelivered == \A w \in Workers : col_worker[w] # "waiting"

(* C29: collection ends early. Once every dispatched task's assignee has   *)
(* produced its terminal reply (RESULT success or failed) and the replies   *)
(* have been delivered to the leader's mailbox, _collect_results returns,   *)
(* whether or not the global deadline ever elapses.                         *)
C29_CollectionEndsEarly == AllRepliesDelivered ~> (col_pc = "returned")

-----------------------------------------------------------------------------
(* C31: wait_for_task returns an envelope only if its method is TASK. When  *)
(* the envelope at the head of the mailbox has any other method, the call   *)
(* consumes it and returns no message, and the envelope is not in the       *)
(* mailbox afterwards.                                                      *)
C31_WaitForTaskFilters ==
    wt_last_op = "wait_for_task" =>
        /\ wt_result # <<>> => wt_result[1].method = "TASK" /\ wt_result[1] = Head(wt_before)
        /\ (wt_before # <<>> /\ Head(wt_before).method # "TASK") =>
               /\ wt_result = <<>>
               /\ rcv_mailbox = Tail(wt_before)

\* A RESULT was at the head with a TASK behind it: the call returned None
\* and the TASK is now at the head.
C31_Witness ==
    /\ wt_last_op = "wait_for_task"
    /\ Len(wt_before) = 2
    /\ wt_before[1].method = "RESULT"
    /\ wt_before[2].method = "TASK"
    /\ wt_result = <<>>
    /\ rcv_mailbox = <<wt_before[2]>>

-----------------------------------------------------------------------------
\* leader_agent.py:587-651 / 1186-1213 the loop takes an envelope of one of
\* the given methods from the leader's mailbox and runs it through its branches
LoopProcesses(methods) ==
    /\ col_pc = "receiving"
    /\ col_pc' = "collecting"
    /\ col_leader_queue # <<>>
    /\ Head(col_leader_queue).method \in methods

\* leader_agent.py:572-584 the threaded loop empties progress_queue at the
\* head of an iteration
LoopDrainsProgress == col_pc = "collecting" /\ col_pc' = "receiving"

(* C32: during collection only RESULT envelopes change completion          *)
(* tracking. A step of the loop that processes an ACK or a PROGRESS         *)
(* envelope leaves the received set and the result map as they were.        *)
C32_OnlyResultsTracked ==
    [][(LoopProcesses({"ACK", "PROGRESS"}) \/ LoopDrainsProgress)
          => UNCHANGED <<col_received, col_results>>]_vars

\* The asyncio loop has taken the first PROGRESS of the only reply so far
\* from the mailbox; nothing is tracked yet.
C32_Witness ==
    /\ col_variant = "async"
    /\ col_pc = "collecting"
    /\ Cardinality({w \in Workers : col_worker[w] = "success"}) = 1
    /\ Cardinality({w \in Workers : col_worker[w] = "waiting"}) = Cardinality(Workers) - 1
    /\ Len(col_leader_queue) = 3
    /\ Head(col_leader_queue).method = "PROGRESS"
    /\ col_received = {}
    /\ col_results = {}

-----------------------------------------------------------------------------
\* ahp.py:168-173 a receive on "leader" takes a RESULT envelope off the mailbox
ConsumesResult ==
    /\ col_leader_queue # <<>>
    /\ col_leader_queue' = Tail(col_leader_queue)
    /\ Head(col_leader_queue).method = "RESULT"

(* C34: the leader's mailbox has a single logical reader during            *)
(* collection. Every RESULT envelope taken from the leader's mailbox        *)
(* before the deadline is taken by the collection loop, which marks its     *)
(* sender received; no other reader consumes and discards one.              *)
C34_SingleReader ==
    [][(ConsumesResult /\ ~col_expired)
          => /\ LoopProcesses({"RESULT"})
             /\ Head(col_leader_queue).agent_id \in col_received']_vars

-----------------------------------------------------------------------------
\* sub_agent.py:99-162 / 466-531 the envelopes worker w put into the
\* leader's mailbox in this step
PutBy(w) ==
    IF col_worker[w] = "waiting" /\ col_worker'[w] # "waiting"
    THEN {col_leader_queue'[i] : i \in (Len(col_leader_queue) + 1)..Len(col_leader_queue')}
    ELSE {}

(* C35: every RESULT and PROGRESS envelope a worker puts into the leader's *)
(* mailbox carries that worker's own identity as its sender (agent_id).     *)
C35_RepliesCarrySender ==
    [][\A w \in Workers : \A msg \in PutBy(w) :
          msg.method \in {"RESULT", "PROGRESS"} => msg.agent_id = w]_vars

-----------------------------------------------------------------------------
(* C33: no automatic re-dispatch. Between the end of dispatch and the      *)
(* return of collection the leader sends no TASK envelope to any worker,    *)
(* whichever workers are missing or reported failure, and no registry       *)
(* operation (retry_failed_task among them) is called.                      *)
C33_NoRedispatch ==
    [][ses_to_dispatch = <<>> => UNCHANGED <<ses_tasks, regVars>>]_vars

\* Collection returned with a worker missing and another that reported
\* failure; each worker was sent its one TASK.
C33_Witness ==
    /\ col_pc = "returned"
    /\ col_missing # {}
    /\ \E w \in Workers : col_at_return.worker[w] = "failed"
    /\ \E w \in Workers : col_at_return.worker[w] = "waiting"
    /\ ses_tasks = [w \in Workers |-> 1]

-----------------------------------------------------------------------------
\* The workers that have replied in the current session
Replied == {w \in Workers : col_worker[w] # "waiting"}

(* C36: collection counts only replies to the current dispatch. A RESULT   *)
(* envelope of an earlier session left in the leader's mailbox, or one      *)
(* whose sender is not an assignee of the dispatched tasks, marks no sender *)
(* received and adds no entry to the result map: every sender marked        *)
(* received and every result stored comes from a worker's reply in the      *)
(* current session.                                                         *)
C36_OnlyCurrentReplies ==
    /\ col_received \subseteq {SenderId(col_variant, w) : w \in Replied}
    /\ col_results \subseteq
          {IF col_worker[w] = "success" THEN CategoryOf[w] ELSE "unknown" : w \in Replied}

-----------------------------------------------------------------------------
(* C38: each invocation of execute_with_retry gets the full retry budget   *)
(* for its key. An invocation whose function fails every time with a        *)
(* retryable error makes max_retries retries before it raises, whatever     *)
(* earlier invocations with the same key did, one that ended by raising     *)
(* with its retries exhausted included.                                     *)
C38_FullBudgetPerInvocation ==
    (rh_pc = "done" /\ rh_outcome = "raised" /\ rh_only_retryable)
        => Len(rh_sleeps) = rh_max_retries

-----------------------------------------------------------------------------
(* C37: status/assignee consistency. In every reachable registry state,     *)
(* under any interleaving of claim_task, update_status, retry_failed_task   *)
(* and cancel_task on the same task, a task whose status is in_progress has *)
(* a non-empty assignee_agent_id and a task whose status is pending has no  *)
(* assignee_agent_id.                                                       *)
C37_StatusAssigneeConsistent ==
    \A t \in Tasks :
        HasAttributes(reg_cache[t]) =>
            /\ reg_cache[t].status = "in_progress" => reg_cache[t].assignee_agent_id # None
            /\ reg_cache[t].status = "pending" => reg_cache[t].assignee_agent_id = None

-----------------------------------------------------------------------------
\* The fields of the breaker that record_success, record_failure and the
\* state read write
BreakerFields == <<cb_failure_count, cb_last_failure_time, cb_state>>

(* C39: the leader's guarded call reports exactly one outcome to the        *)
(* circuit breaker per invocation that reaches the Completion Service: one  *)
(* record_failure when the whole retry cycle failed, one record_success     *)
(* when it succeeded, nothing while the attempts of the cycle are made, and *)
(* no breaker update when the call is short-circuited by an open breaker;   *)
(* hence the breaker opens only after failure_threshold consecutive failed  *)
(* guarded calls.                                                           *)
C39_OneReportPerGuardedCall ==
    [][/\ (guard_pc = "retrying" /\ guard_pc' = "done") =>
              /\ cb_prev_op' = cb_last_op
              /\ cb_last_op' = IF rh_outcome = "returned"
                               THEN "record_success" ELSE "record_failure"
              /\ cb_failure_count' = IF rh_outcome = "returned"
                                     THEN 0 ELSE cb_failure_count + 1
       /\ (guard_pc = "retrying" /\ guard_pc' = "retrying") =>
              UNCHANGED <<BreakerFields, cb_last_op>>
       /\ (guard_pc # "retrying" /\ guard_pc' = "done" /\ guard_refused') =>
              UNCHANGED <<BreakerFields, rhVars>>
       /\ (cb_state # "open" /\ cb_state' = "open") =>
              guard_failed_run' >= FailureThreshold]_vars

\* The fifth guarded call in a row has failed after its retries, and the
\* breaker has just opened.
C39_Witness ==
    /\ guard_pc = "done"
    /\ ~guard_refused
    /\ rh_outcome = "raised"
    /\ rh_calls > 1
    /\ cb_last_op = "record_failure"
    /\ cb_prev_state = "closed"
    /\ cb_state = "open"
    /\ guard_failed_run = FailureThreshold

-----------------------------------------------------------------------------
\* The envelopes in all mailboxes
InMailboxes == SumOver([a \in RcvSenders |-> Len(ack_mailbox[a])], RcvSenders)

(* C40: acknowledgments do not cascade. A receive puts at most one ACK into *)
(* a mailbox for the envelope it takes, and none for an ACK; so once the    *)
(* senders have stopped producing envelopes and every mailbox keeps being   *)
(* polled, all mailboxes eventually become empty and stay empty.            *)
C40_AcksDoNotCascade ==
    /\ [][ack_produced' = ack_produced =>
             /\ InMailboxes' <= InMailboxes
             /\ \A a \in RcvSenders :
                   (/\ ack_mailbox[a] # <<>>
                    /\ Head(ack_mailbox[a]).method = "ACK"
                    /\ Len(ack_mailbox'[a]) < Len(ack_mailbox[a]))
                       => InMailboxes' = InMailboxes - 1]_vars
    /\ <>[](\A a \in RcvSenders : ack_mailbox[a] = <<>>)

\* Every envelope has been produced, an ACK was sent for one of them, and
\* the mailboxes are empty.
C40_Witness ==
    /\ ack_produced = MaxProduced
    /\ ack_acked
    /\ \A a \in RcvSenders : ack_mailbox[a] = <<>>

====
